---- MODULE Spec2Model ----
(***************************************************************************)
(* A model of the STFS container reader of rbtools                         *)
(* (src/bin/python/lib/stfs.py): block address translation, hash record    *)
(* location, container open (magic, header, file table, path resolution),  *)
(* read_file, the other calls made on an open container (get_blockhash,    *)
(* verify_block, read_block, read_filetable), two threads sharing the      *)
(* file object of one container, and the command-line tools that open a    *)
(* container (stfs_file_stat.py, stfs_extract.py,                          *)
(* stfs_extract_selected_songs.py).                                        *)
(*                                                                         *)
(* Bytes are not modelled one by one.  A read of n bytes at absolute       *)
(* offset o of the byte source is the chunk [off |-> o, n |-> n]; two byte  *)
(* strings are equal exactly when their chunk sequences are equal.  The    *)
(* byte source itself (disk) gives its length, its first four bytes, the   *)
(* header fields, the hash records by (table block, slot) and the 0x40     *)
(* byte directory slices by physical block.                                *)
(***************************************************************************)
EXTENDS Integers, Sequences, FiniteSets, TLC

VARIABLES
    disk,             \* the byte source behind self.fd (never written)
    fd_pos,           \* the cursor of self.fd
    self,             \* the STFS object: a record that gains attributes as __init__ runs
    pc,               \* position in the running operation
    err,              \* the exception that ended the operation ("" = none)
    fl_i,             \* parse_filetable: index of fl in the path loop (1-based)
    a,                \* parse_filetable: index of the record the walk is at
    path_components,  \* parse_filetable: names collected for fl
    paths,            \* parse_filetable: key stored in allfiles for each fl so far
    q,                \* arguments of the call made on the object (pos: the cursor found)
    ans,              \* what the call returned
    rf_size,          \* read_file: size, the bytes still to read
    rf_block,         \* read_file: block, the current logical block
    rf_info,          \* read_file: info, the status of the last hash record used
    rf_buf,           \* read_file: the chunks written to buf
    tool,             \* the command-line tool that runs: its arguments and locals
    fs                \* the destination directory of the tool on the file system

vars == <<disk, fd_pos, self, pc, err, fl_i, a, path_components, paths, q, ans,
          rf_size, rf_block, rf_info, rf_buf, tool, fs>>

openVars == <<fl_i, a, path_components, paths>>
addrVars == <<q, ans>>
readVars == <<rf_size, rf_block, rf_info, rf_buf>>
toolVars == <<tool, fs>>

(***************************************************************************)
(* Geometry of the format                                                  *)
(***************************************************************************)
BlockSize == 4096
HashRecordSize == 24
RecordsPerTable == 170
Level1Period == 28900
DataStart == 49152
HeaderSize == 38682
FileRecordSize == 64

\* x << n on Python integers
Shl(x, n) == x * (2 ^ n)

Min(x, y) == IF x < y THEN x ELSE y
Max(x, y) == IF x > y THEN x ELSE y

\* self.table_spacing[shift][0]
table_spacing(shift) == IF shift = 0 THEN 171 ELSE 172

(***************************************************************************)
(* fix_blocknum and the table block of get_blockhash                       *)
(***************************************************************************)
\* "%" written for "//" in the first term
fix_blocknum_mod(block_num) ==
    LET s == self.table_size_shift
        adj1 == IF block_num >= RecordsPerTable
                THEN Shl((block_num % RecordsPerTable) + 1, s) ELSE 0
        adj2 == IF block_num >= Level1Period
                THEN Shl((block_num \div Level1Period) + 1, s) ELSE 0
    IN  adj1 + adj2 + block_num

\* ">" written for ">=" in the first test
fix_blocknum_gt(block_num) ==
    LET s == self.table_size_shift
        adj1 == IF block_num > RecordsPerTable
                THEN Shl((block_num \div RecordsPerTable) + 1, s) ELSE 0
        adj2 == IF block_num >= Level1Period
                THEN Shl((block_num \div Level1Period) + 1, s) ELSE 0
    IN  adj1 + adj2 + block_num

\* the first term read as (block_num // 0xAA) + (1 << shift)
fix_blocknum_paren(block_num) ==
    LET s == self.table_size_shift
        adj1 == IF block_num >= RecordsPerTable
                THEN (block_num \div RecordsPerTable) + Shl(1, s) ELSE 0
        adj2 == IF block_num >= Level1Period
                THEN Shl((block_num \div Level1Period) + 1, s) ELSE 0
    IN  adj1 + adj2 + block_num

\* "+" binds tighter than "<<" in Python: (block_num // 0xAA + 1) << shift
fix_blocknum(block_num) ==
    LET s == self.table_size_shift
        adj1 == IF block_num >= RecordsPerTable
                THEN Shl((block_num \div RecordsPerTable) + 1, s) ELSE 0
        adj2 == IF block_num >= Level1Period
                THEN Shl((block_num \div Level1Period) + 1, s) ELSE 0
    IN  adj1 + adj2 + block_num

\* the final "- (1 << shift)" left out
get_blockhash_tablenum_nofix(blocknum, table_offset) ==
    LET s == self.table_size_shift
        base == (blocknum \div RecordsPerTable) * table_spacing(s)
        l1 == IF blocknum >= RecordsPerTable
              THEN Shl((blocknum \div Level1Period) + 1, s) ELSE 0
        l2 == IF blocknum >= Level1Period THEN Shl(1, s) ELSE 0
    IN  base + l1 + l2 + table_offset

\* the level-1 tables not skipped
get_blockhash_tablenum_nol1(blocknum, table_offset) ==
    LET s == self.table_size_shift
        base == (blocknum \div RecordsPerTable) * table_spacing(s)
        l2 == IF blocknum >= Level1Period THEN Shl(1, s) ELSE 0
    IN  base + l2 + table_offset - Shl(1, s)

get_blockhash_tablenum(blocknum, table_offset) ==
    LET s == self.table_size_shift
        base == (blocknum \div RecordsPerTable) * table_spacing(s)
        l1 == IF blocknum >= RecordsPerTable
              THEN Shl((blocknum \div Level1Period) + 1, s) ELSE 0
        l2 == IF blocknum >= Level1Period THEN Shl(1, s) ELSE 0
    IN  base + l1 + l2 + table_offset - Shl(1, s)

get_blockhash_record(blocknum) == blocknum % RecordsPerTable

(***************************************************************************)
(* Address translation on its own: the calls are made on an object whose   *)
(* table_size_shift is set, for logical blocks around the table            *)
(* boundaries.                                                             *)
(***************************************************************************)
Win == 2
LowMax == 172

\* multiples of 0xAA whose neighbourhood is sampled: the first groups, the
\* level-1 period 0x70E4 and its double, the level-2 period 0x4AF768
GroupSamples == {0, 1, 2, 3, 170, 171, 340, 28900}

SampleBlocks ==
    {b \in {k * RecordsPerTable + d : k \in GroupSamples, d \in (0 - Win) .. Win} :
        b >= 0}

LowBlocks == 0 .. LowMax

NoAns == [done |-> {}]

AddrInit ==
    /\ disk = [len |-> 0]
    /\ fd_pos = 0
    /\ self \in {[table_size_shift |-> s] : s \in {0, 1}}
    /\ pc = "addr"
    /\ err = ""
    /\ fl_i = 0 /\ a = 0 /\ path_components = <<>> /\ paths = <<>>
    /\ q \in {[b1 |-> x, b2 |-> y, t |-> t] :
                x \in LowBlocks \cup SampleBlocks, y \in SampleBlocks, t \in {0, 1}}
    /\ ans = NoAns
    /\ rf_size = 0 /\ rf_block = 0 /\ rf_info = 0 /\ rf_buf = <<>>
    /\ tool = <<>> /\ fs = <<>>

\* fix_blocknum called for both blocks of the query
CallFixBlocknum ==
    /\ pc = "addr"
    /\ "fix" \notin ans.done
    /\ ans' = [ans EXCEPT !.done = @ \cup {"fix"}] @@
              [phys1 |-> fix_blocknum(q.b1), phys2 |-> fix_blocknum(q.b2)]
    /\ UNCHANGED <<toolVars, disk, fd_pos, self, pc, err, openVars, readVars, q>>

\* the table block and slot get_blockhash computes for the first block
CallLocateHash ==
    /\ pc = "addr"
    /\ "hash" \notin ans.done
    /\ ans' = [ans EXCEPT !.done = @ \cup {"hash"}] @@
              [tablenum |-> get_blockhash_tablenum(q.b1, q.t),
               record |-> get_blockhash_record(q.b1),
               lo |-> get_blockhash_record(q.b1) * HashRecordSize,
               hi |-> get_blockhash_record(q.b1) * HashRecordSize + HashRecordSize]
    /\ UNCHANGED <<toolVars, disk, fd_pos, self, pc, err, openVars, readVars, q>>

AddrNext == CallFixBlocknum \/ CallLocateHash

SpecAddr == AddrInit /\ [][AddrNext]_vars

(***************************************************************************)
(* Python values with their type: bytes and str never compare equal        *)
(***************************************************************************)
Bytes(v) == [type |-> "bytes", val |-> v]
Str(v) == [type |-> "str", val |-> v]
PyEq(x, y) == x.type = y.type /\ x.val = y.val
PyNe(x, y) == ~PyEq(x, y)

(***************************************************************************)
(* The byte source                                                         *)
(***************************************************************************)
\* self.fd.seek(0xC000 + blocknum * 0x1000); self.fd.read(length): the bytes
\* that exist at that offset, at most length of them
read_block(blocknum, length) ==
    LET off == DataStart + blocknum * BlockSize
    IN  [off |-> off, n |-> Min(length, Max(0, disk.len - off))]

ZeroHash == [info |-> 0, nextblock |-> 0]

\* Block contents are versions: 0 is the block as it was when its digest was
\* stored, any other value is the block after a change of its bytes.  A
\* digest is written as the data it is the SHA-1 of (version and length), so
\* two digests are equal exactly when the data are; 20 NUL bytes are the
\* digest of no data that occurs here.
ZeroDigest == [content |-> -1, n |-> 0]

BlockContentAt(physblock) ==
    IF "content" \in DOMAIN disk /\ physblock \in DOMAIN disk.content
    THEN disk.content[physblock] ELSE 0

\* hashlib.sha1(data).digest() for data read by read_block
sha1(data) ==
    [content |-> BlockContentAt((data.off - DataStart) \div BlockSize), n |-> data.n]

\* data[:0x14] of the 0x18 bytes at slot `record` of table block `tablenum`
HashDigestAt(tablenum, record) ==
    IF <<tablenum, record>> \in DOMAIN disk.hash
       /\ "hash" \in DOMAIN disk.hash[<<tablenum, record>>]
    THEN disk.hash[<<tablenum, record>>].hash ELSE ZeroDigest

\* the 0x18 bytes at slot `record` of table block `tablenum`, decoded
HashBytesAt(tablenum, record) ==
    IF <<tablenum, record>> \in DOMAIN disk.hash
    THEN disk.hash[<<tablenum, record>>] ELSE ZeroHash

\* STFSHashInfo.types with every status byte in it
HashInfoTypes_any == 0 .. 255

\* STFSHashInfo.types
HashInfoTypes == {0, 64, 128, 192}

\* get_blockhash with BlockHashRecord.__init__: the record, or the assertion
\* that fails
get_blockhash(blocknum, table_offset) ==
    LET record == get_blockhash_record(blocknum)
        tablenum == get_blockhash_tablenum(blocknum, table_offset)
        hashdata == read_block(tablenum, BlockSize)
        lo == record * HashRecordSize
        got == Max(0, Min(hashdata.n, lo + HashRecordSize) - lo)
        raw == HashBytesAt(tablenum, record)
    IN  IF got # HashRecordSize
        THEN [ok |-> FALSE, err |-> "BlockHashRecord data of an incorrect length",
              pos |-> hashdata.off + hashdata.n]
        ELSE IF raw.info \notin HashInfoTypes
        THEN [ok |-> FALSE, err |-> "BlockHashRecord type is unknown",
              pos |-> hashdata.off + hashdata.n]
        ELSE [ok |-> TRUE, blocknum |-> blocknum, table |-> tablenum,
              record |-> record, hash |-> HashDigestAt(tablenum, record),
              info |-> raw.info, nextblock |-> raw.nextblock,
              pos |-> hashdata.off + hashdata.n]

\* the selection with the primary record always kept
select_blockhash_primary(block) == get_blockhash(block, 0)

\* the hash record read_filetable and read_file advance with: the primary
\* one, or the secondary one when tables are doubled and the primary is not
\* in use
select_blockhash(block) ==
    LET h0 == get_blockhash(block, 0)
    IN  IF h0.ok /\ self.table_size_shift > 0 /\ h0.info < 128
        THEN get_blockhash(block, 1) ELSE h0

\* read_filetable: `left` more iterations from block `block`; buf and the
\* cursor so far
RECURSIVE read_filetable_from(_, _, _, _)
read_filetable_from(block, left, buf, pos) ==
    IF left = 0 THEN [ok |-> TRUE, data |-> buf, pos |-> pos]
    ELSE LET chunk == read_block(fix_blocknum(block), BlockSize)
             blockhash == select_blockhash(block)
         IN  IF ~blockhash.ok
             THEN [ok |-> FALSE, err |-> blockhash.err, pos |-> blockhash.pos]
             ELSE read_filetable_from(blockhash.nextblock, left - 1,
                                      Append(buf, chunk), blockhash.pos)

\* read_filetable giving up after the first block
read_filetable_single(firstblock, numblocks) ==
    read_filetable_from(firstblock, Min(numblocks, 1), <<>>, fd_pos)

read_filetable(firstblock, numblocks) ==
    read_filetable_from(firstblock, numblocks, <<>>, fd_pos)

(***************************************************************************)
(* Directory slices and FileListing                                        *)
(***************************************************************************)
ZeroSlice == [name |-> <<>>, flags |-> 0, firstblock |-> 0, pathindex |-> 0, size |-> 0]

\* input slices are written with their name field cut after the last non-NUL
\* byte; the rest of the 0x28 bytes is NUL
SliceAt(physblock, i) ==
    IF physblock \in DOMAIN disk.dir /\ i <= Len(disk.dir[physblock])
    THEN disk.dir[physblock][i] ELSE ZeroSlice

RECURSIVE StripLeft(_)
StripLeft(s) == IF s # <<>> /\ Head(s) = 0 THEN StripLeft(Tail(s)) ELSE s

RECURSIVE StripRight(_)
StripRight(s) ==
    IF s # <<>> /\ s[Len(s)] = 0 THEN StripRight(SubSeq(s, 1, Len(s) - 1)) ELSE s

\* bytes.strip(b"\x00")
StripNul(s) == StripRight(StripLeft(s))

\* struct.unpack(">h", ...) of the two pathindex bytes
SignedShort(u) == IF u >= 32768 THEN u - 65536 ELSE u

\* assert self.filename != "": a bytes object against a str
FilenameAssert(filename) == PyNe(filename, Str(<<>>))

\* FileListing.__init__ on one whole 0x40 byte slice
FileListing(raw) ==
    LET filename == Bytes(StripNul(raw.name))
    IN  IF ~FilenameAssert(filename)
        THEN [ok |-> FALSE, err |-> "FileListing has empty filename"]
        ELSE [ok |-> TRUE,
              filename |-> filename,
              isdirectory |-> (raw.flags \div 128) % 2 = 1,
              firstblock |-> raw.firstblock,
              pathindex |-> SignedShort(raw.pathindex),
              size |-> raw.size]

\* the slices of the byte string read_filetable returned, chunk by chunk
RECURSIVE SlicesOf(_)
SlicesOf(data) ==
    IF data = <<>> THEN <<>>
    ELSE LET c == Head(data)
             physblock == (c.off - DataStart) \div BlockSize
         IN  [i \in 1 .. (c.n \div FileRecordSize) |-> SliceAt(physblock, i)]
             \o SlicesOf(Tail(data))

\* a byte string that does not end on a slice boundary has a last slice
\* shorter than 0x40 bytes
RaggedTail(data) == \E i \in DOMAIN data : data[i].n % FileRecordSize # 0

\* lines 183-187: every slice FileListing accepts, in order
RECURSIVE ListingsOf(_)
ListingsOf(slices) ==
    IF slices = <<>> THEN <<>>
    ELSE LET fl == FileListing(Head(slices))
         IN  (IF fl.ok THEN <<[x \in DOMAIN fl \ {"ok"} |-> fl[x]]>> ELSE <<>>)
             \o ListingsOf(Tail(slices))

(***************************************************************************)
(* Text                                                                    *)
(***************************************************************************)
\* the characters of the names used here, by byte value
CharOf == [b \in {46, 47, 95, 97, 98, 100, 101, 103, 110, 111, 112, 114, 115, 116, 117} |->
              CASE b = 46 -> "." [] b = 47 -> "/" [] b = 95 -> "_"
                [] b = 97 -> "a" [] b = 98 -> "b" [] b = 100 -> "d"
                [] b = 101 -> "e" [] b = 103 -> "g" [] b = 110 -> "n"
                [] b = 111 -> "o" [] b = 112 -> "p" [] b = 114 -> "r"
                [] b = 115 -> "s" [] b = 116 -> "t" [] b = 117 -> "u"]

\* bytes.decode("UTF-8") for these names: ASCII bytes decode to their
\* character, a lone byte >= 0x80 is an error
Decodable(bs) == \A i \in DOMAIN bs : bs[i] < 128
Decode(bs) == [i \in DOMAIN bs |-> CharOf[bs[i]]]

RECURSIVE Join(_, _)
\* sep.join(parts) on strings written as sequences of characters
Join(sep, parts) ==
    IF parts = <<>> THEN <<>>
    ELSE IF Len(parts) = 1 THEN parts[1]
    ELSE parts[1] \o sep \o Join(sep, Tail(parts))

Reverse(s) == [i \in 1 .. Len(s) |-> s[Len(s) + 1 - i]]

(***************************************************************************)
(* STFS.__init__                                                           *)
(***************************************************************************)
MagicTags == {"CON ", "PIRS", "LIVE"}

\* data in (b"CON ", b"PIRS", b"LIVE"), with any four bytes accepted
MagicFound_any(data) == data.type = "bytes"

\* data in (b"CON ", b"PIRS", b"LIVE")
MagicFound(data) == \E tag \in MagicTags : PyEq(data, Bytes(tag))

\* assert len(data) >= 0x971A, with the bound left at zero
HeaderLongEnough_zero(n) == n >= 0

\* assert len(data) >= 0x971A
HeaderLongEnough(n) == n >= HeaderSize

\* lines 377-381 with 0xA taken for the one-block value
table_size_shift_of_a(entry_id) ==
    IF ((entry_id + 4095) \div 4096) % 16 = 10 THEN 0 ELSE 1

\* lines 377-381
table_size_shift_of(entry_id) ==
    IF ((entry_id + 4095) \div 4096) % 16 = 11 THEN 0 ELSE 1

\* lines 137-149: open, read four bytes, check them
InitMagicOk ==
    /\ pc = "start"
    /\ MagicFound(Bytes(disk.first4))
    /\ self' = [filename |-> "file", fd |-> "open", magic |-> Bytes(disk.first4)]
    /\ fd_pos' = Min(4, disk.len)
    /\ pc' = "header"
    /\ UNCHANGED <<toolVars, disk, err, openVars, addrVars, readVars>>

InitMagicFail ==
    /\ pc = "start"
    /\ ~MagicFound(Bytes(disk.first4))
    /\ self' = [filename |-> "file", fd |-> "open"]
    /\ fd_pos' = Min(4, disk.len)
    /\ pc' = "failed"
    /\ err' = "STFS Magic not found"
    /\ UNCHANGED <<toolVars, disk, openVars, addrVars, readVars>>

\* lines 150-154 with parse_header, the header long enough
InitParseHeader ==
    /\ pc = "header"
    /\ HeaderLongEnough(Min(HeaderSize, disk.len))
    /\ self' = self @@
               [data |-> [off |-> 0, n |-> Min(HeaderSize, disk.len)],
                entry_id |-> disk.header.entry_id,
                filetable_blockcount |-> disk.header.filetable_blockcount,
                filetable_blocknumber |-> disk.header.filetable_blocknumber,
                allocated_count |-> disk.header.allocated_count,
                table_size_shift |-> table_size_shift_of(disk.header.entry_id)]
    /\ fd_pos' = Min(HeaderSize, disk.len)
    /\ pc' = "filetable"
    /\ UNCHANGED <<toolVars, disk, err, openVars, addrVars, readVars>>

\* the same lines, the assertion of parse_header failing
InitParseHeaderShort ==
    /\ pc = "header"
    /\ ~HeaderLongEnough(Min(HeaderSize, disk.len))
    /\ self' = self @@ [data |-> [off |-> 0, n |-> Min(HeaderSize, disk.len)]]
    /\ fd_pos' = Min(HeaderSize, disk.len)
    /\ pc' = "failed"
    /\ err' = "STFS Data Too Short"
    /\ UNCHANGED <<toolVars, disk, openVars, addrVars, readVars>>

(***************************************************************************)
(* parse_filetable                                                         *)
(***************************************************************************)
MaxHops == 6

\* the while condition of line 193 for the record at index i (1-based)
WalkContinues_noguard(i) == self.filelistings[i].pathindex # -1

WalkContinues(i) ==
    /\ self.filelistings[i].pathindex # -1
    /\ self.filelistings[i].pathindex < Len(self.filelistings)

\* self.filelistings[pathindex] as Python indexes a list: 0 is the first
\* element, -1 the last; 0 here when Python raises IndexError
ListIndex(pathindex) ==
    LET n == Len(self.filelistings)
    IN  IF pathindex >= 0 /\ pathindex < n THEN pathindex + 1
        ELSE IF pathindex < 0 /\ pathindex >= 0 - n THEN n + pathindex + 1
        ELSE 0

\* lines 202-204 with the components left in walk order
PathKey_noreverse(components) ==
    Join(<<"/">>, [i \in DOMAIN components |-> Decode(components[i].val)]
                  \o << <<>> >>)

\* lines 202-204 without the b"" that stands for the root
PathKey_noroot(components) ==
    LET all == Reverse(components)
    IN  Join(<<"/">>, [i \in DOMAIN all |-> Decode(all[i].val)])

\* lines 202-204: append b"", reverse, decode and join
PathKey(components) ==
    LET all == Reverse(Append(components, Bytes(<<>>)))
    IN  Join(<<"/">>, [i \in DOMAIN all |-> Decode(all[i].val)])

\* the path loop starts on record i, or the loop is over
StartWalk(i) ==
    IF i <= Len(self'.filelistings)
    THEN /\ fl_i' = i /\ a' = i
         /\ path_components' = <<self'.filelistings[i].filename>>
         /\ pc' = "paths"
    ELSE /\ fl_i' = i /\ a' = 0 /\ path_components' = <<>>
         /\ pc' = "open"

\* lines 173-187: read the file table and build the FileListing list
ParseFiletable ==
    /\ pc = "filetable"
    /\ LET r == read_filetable(self.filetable_blocknumber, self.filetable_blockcount)
       IN  /\ r.ok /\ ~RaggedTail(r.data)
           /\ self' = self @@ [filelistings |-> ListingsOf(SlicesOf(r.data)),
                               allfiles |-> <<>>]
           /\ fd_pos' = r.pos
           /\ StartWalk(1)
    /\ paths' = <<>>
    /\ UNCHANGED <<toolVars, disk, err, addrVars, readVars>>

\* the same lines, an exception leaving read_filetable or FileListing
ParseFiletableFail ==
    /\ pc = "filetable"
    /\ LET r == read_filetable(self.filetable_blocknumber, self.filetable_blockcount)
       IN  /\ IF r.ok THEN RaggedTail(r.data) ELSE TRUE
           /\ err' = IF r.ok THEN "struct.error" ELSE r.err
           /\ fd_pos' = r.pos
    /\ self' = self @@ [filelistings |-> <<>>, allfiles |-> <<>>]
    /\ pc' = "failed"
    /\ UNCHANGED <<toolVars, disk, openVars, addrVars, readVars>>

\* lines 193-196: one iteration of the while loop
WalkStep ==
    /\ pc = "paths"
    /\ WalkContinues(a)
    /\ Len(path_components) <= MaxHops
    /\ ListIndex(self.filelistings[a].pathindex) # 0
    /\ a' = ListIndex(self.filelistings[a].pathindex)
    /\ path_components' = Append(path_components, self.filelistings[a'].filename)
    /\ UNCHANGED <<toolVars, disk, fd_pos, self, pc, err, fl_i, paths, addrVars, readVars>>

\* lines 197-201: the index is rejected by the list
WalkIndexError ==
    /\ pc = "paths"
    /\ WalkContinues(a)
    /\ ListIndex(self.filelistings[a].pathindex) = 0
    /\ pc' = "failed"
    /\ err' = "IndexError"
    /\ UNCHANGED <<toolVars, disk, fd_pos, self, fl_i, a, path_components, paths, addrVars, readVars>>

\* lines 202-204, then the next fl
WalkFinish ==
    /\ pc = "paths"
    /\ ~WalkContinues(a)
    /\ \A i \in DOMAIN path_components : Decodable(path_components[i].val)
    /\ LET key == PathKey(path_components)
       IN  /\ self' = [self EXCEPT !.allfiles =
                          [k \in DOMAIN self.allfiles \cup {key} |->
                              IF k = key THEN fl_i ELSE self.allfiles[k]]]
           /\ paths' = Append(paths, key)
    /\ StartWalk(fl_i + 1)
    /\ UNCHANGED <<toolVars, disk, fd_pos, err, addrVars, readVars>>

\* line 204: a name that is not UTF-8
WalkDecodeError ==
    /\ pc = "paths"
    /\ ~WalkContinues(a)
    /\ \E i \in DOMAIN path_components : ~Decodable(path_components[i].val)
    /\ pc' = "failed"
    /\ err' = "UnicodeDecodeError"
    /\ UNCHANGED <<toolVars, disk, fd_pos, self, fl_i, a, path_components, paths, addrVars, readVars>>

(***************************************************************************)
(* Containers that are opened                                              *)
(***************************************************************************)
MaxSlices == 3

SeqsUpTo(S, n) == UNION {[1 .. k -> S] : k \in 0 .. n}

\* the layout of the format for logical blocks below the level-1 period
\* (docstring of fix_blocknum): group k of 0xAA data blocks is preceded by its
\* hash table of 1 << s blocks, and every group but the first also by one
\* level-1 table of the same size
FixturePhys(s, b) ==
    LET k == b \div RecordsPerTable
    IN  b + (IF k = 0 THEN 0 ELSE (k + 1) * (2 ^ s))

FixtureTable(s, b, t) ==
    LET k == b \div RecordsPerTable
    IN  FixturePhys(s, k * RecordsPerTable) - (2 ^ s) + t

\* entry_id of a container with one-block tables, and with two-block tables
EntryIds == {44302, 38682}

\* raw pathindex fields: 0xFFFF is -1, 0xFFFE is -2, 0x7FFF is an index beyond
\* any table built here; ZeroSlice is zero padding, 0xFF is not UTF-8
SliceChoices ==
    {[name |-> n, flags |-> 0, firstblock |-> 0, pathindex |-> pi, size |-> 0] :
        n \in {<<97>>, <<98>>}, pi \in {65535, 0, 1}}
    \cup {[ZeroSlice EXCEPT !.name = <<97>>, !.pathindex = 65534],
          [ZeroSlice EXCEPT !.name = <<97>>, !.pathindex = 32767],
          ZeroSlice,
          [ZeroSlice EXCEPT !.name = <<255>>, !.pathindex = 65535]}

\* a container whose file table is one block at logical block `first`, cut
\* off after the given slices
DeepDisk(tag, e, first, slices) ==
    LET s == table_size_shift_of(e)
        p == FixturePhys(s, first)
    IN  [len |-> DataStart + p * BlockSize + Len(slices) * FileRecordSize,
         first4 |-> tag,
         header |-> [entry_id |-> e, filetable_blockcount |-> 1,
                     filetable_blocknumber |-> first,
                     allocated_count |-> first + 1],
         hash |-> (<<FixtureTable(s, first, 0), first % RecordsPerTable>>
                     :> [info |-> 192, nextblock |-> 16777215]),
         dir |-> (p :> slices)]

DeepDisks ==
    {DeepDisk("CON ", e, 0, sl) : e \in EntryIds, sl \in SeqsUpTo(SliceChoices, MaxSlices)}

\* a byte source of `len` bytes that starts with first4 and holds no records
ShallowDisk(first4, len, e, count) ==
    [len |-> len, first4 |-> first4,
     header |-> [entry_id |-> e, filetable_blockcount |-> count,
                 filetable_blocknumber |-> 0, allocated_count |-> 0],
     hash |-> <<>>, dir |-> <<>>]

ShallowDisks ==
    {ShallowDisk(f, n, e, c) :
        f \in MagicTags \cup {"STFS"}, n \in {4, HeaderSize - 1, HeaderSize, DataStart},
        e \in EntryIds, c \in {0, 1}}
    \cup {ShallowDisk("CON", 3, 44302, 1), ShallowDisk("", 0, 44302, 1)}

\* entry_id values on either side of the 0xB nibble, with and without bits
\* above the low 16, up to the largest TLC computes with (0x7FFFF000)
EntryIdSamples ==
    {0, 1, 40960, 40961, 45056, 45057, 61441, 106497, 110592, 110593,
     2147463168, 2147479552}

\* containers with an empty file table, one for each of these entry_id values
HeaderDisks == {ShallowDisk("CON ", DataStart, e, 0) : e \in EntryIdSamples}

OpenInit ==
    /\ disk \in DeepDisks \cup ShallowDisks \cup HeaderDisks
    /\ fd_pos = 0
    /\ self = <<>>
    /\ pc = "start"
    /\ err = ""
    /\ fl_i = 0 /\ a = 0 /\ path_components = <<>> /\ paths = <<>>
    /\ q = <<>> /\ ans = NoAns
    /\ rf_size = 0 /\ rf_block = 0 /\ rf_info = 0 /\ rf_buf = <<>>
    /\ tool = <<>> /\ fs = <<>>

OpenNext ==
    \/ InitMagicOk
    \/ InitMagicFail
    \/ InitParseHeader
    \/ InitParseHeaderShort
    \/ ParseFiletable
    \/ ParseFiletableFail
    \/ WalkStep
    \/ WalkIndexError
    \/ WalkFinish
    \/ WalkDecodeError

Spec == OpenInit /\ [][OpenNext]_vars

(***************************************************************************)
(* read_file                                                               *)
(***************************************************************************)
\* the while condition of line 216 with "block >= 0"
ReadFileContinues_ge0 ==
    rf_size > 0 /\ rf_block >= 0 /\ rf_block < self.allocated_count /\ rf_info >= 128

\* the while condition of line 216 without "size > 0"
ReadFileContinues_nosize ==
    rf_block > 0 /\ rf_block < self.allocated_count /\ rf_info >= 128

\* the while condition of line 216 without "block < self.allocated_count"
ReadFileContinues_noalloc ==
    rf_size > 0 /\ rf_block > 0 /\ rf_info >= 128

\* the while condition of line 216, looking also at the status of the record
\* of the block about to be read
ReadFileContinues_peek ==
    /\ rf_size > 0 /\ rf_block > 0 /\ rf_block < self.allocated_count /\ rf_info >= 128
    /\ select_blockhash(rf_block).info >= 128

\* the while condition of line 216
ReadFileContinues ==
    rf_size > 0 /\ rf_block > 0 /\ rf_block < self.allocated_count /\ rf_info >= 128

\* readlen = min(0x1000, size), always a whole block
readlen_whole(sz) == BlockSize

\* readlen = min(0x1000, size), cut to the bytes that follow the cursor
readlen_aftercursor(sz) == Min(Min(BlockSize, sz), Max(0, disk.len - fd_pos))

\* readlen = max(0x1000, size)
readlen_max(sz) == Max(BlockSize, sz)

\* readlen = min(0x1000, size)
readlen(sz) == Min(BlockSize, sz)

\* lines 211-215: read_file(filelisting) called on the open container
ReadFileCall ==
    /\ pc = "open"
    /\ \E i \in DOMAIN self.filelistings :
           /\ q' = [op |-> "read_file", filelisting |-> i, size |-> -1, pos |-> fd_pos]
           /\ rf_size' = self.filelistings[i].size
           /\ rf_block' = self.filelistings[i].firstblock
    /\ rf_info' = 128
    /\ rf_buf' = <<>>
    /\ ans' = NoAns
    /\ pc' = "read_file"
    /\ UNCHANGED <<toolVars, disk, fd_pos, self, err, openVars>>

\* lines 217-229: one iteration of the while loop
ReadFileIter ==
    /\ pc = "read_file"
    /\ ReadFileContinues
    /\ LET blockhash == select_blockhash(rf_block)
       IN  /\ blockhash.ok
           /\ rf_buf' = Append(rf_buf, read_block(fix_blocknum(rf_block), readlen(rf_size)))
           /\ rf_size' = rf_size - readlen(rf_size)
           /\ rf_block' = blockhash.nextblock
           /\ rf_info' = blockhash.info
           /\ fd_pos' = blockhash.pos
    /\ UNCHANGED <<toolVars, disk, self, pc, err, openVars, addrVars>>

\* the same lines, BlockHashRecord refusing the bytes it is given: the
\* assertion leaves read_file and the object stays open
ReadFileIterFail ==
    /\ pc = "read_file"
    /\ ReadFileContinues
    /\ LET blockhash == select_blockhash(rf_block)
       IN  /\ ~blockhash.ok
           /\ ans' = [done |-> {"read_file"}, raised |-> blockhash.err]
           /\ fd_pos' = blockhash.pos
    /\ rf_size' = 0 /\ rf_block' = 0 /\ rf_info' = 0 /\ rf_buf' = <<>>
    /\ pc' = "open"
    /\ UNCHANGED <<toolVars, disk, self, err, openVars, q>>

\* line 230: return buf.getvalue(); the locals are gone with the call
ReadFileReturn ==
    /\ pc = "read_file"
    /\ ~ReadFileContinues
    /\ ans' = [done |-> {"read_file"}, bytes |-> rf_buf]
    /\ rf_size' = 0 /\ rf_block' = 0 /\ rf_info' = 0 /\ rf_buf' = <<>>
    /\ pc' = "open"
    /\ UNCHANGED <<toolVars, disk, fd_pos, self, err, openVars, q>>

(***************************************************************************)
(* Containers that are read: one file whose chain runs over the data       *)
(* blocks 0, 1 and 0xAA, and the file table in block 0xAB, the last block  *)
(* of the byte source.                                                     *)
(***************************************************************************)
MaxChain == 3

DataBlocks == {0, 1, 170}
FtBlock == 171
EndNext == 16777215

\* sequences without repetition
Injective(seq) == \A i, j \in DOMAIN seq : i # j => seq[i] # seq[j]
Chains == {c \in SeqsUpTo(DataBlocks, MaxChain) : c # <<>> /\ Injective(c)}

\* record sizes: up to MaxChain blocks, whole or with a one-byte last block
FileSizes == {0} \cup {k * BlockSize + d : k \in 0 .. (MaxChain - 1), d \in {1, BlockSize}}

\* how a chain is written on disk: every record Current, or one record with
\* another status, or (two-block tables) one block whose primary record is
\* stale and whose secondary record is the live one
ChainVariants(s, c) ==
    {[kind |-> "plain", at |-> 0, info |-> 192]}
    \cup {[kind |-> "status", at |-> j, info |-> i] : j \in DOMAIN c, i \in {64, 128}}
    \cup (IF s = 1 THEN {[kind |-> "stale", at |-> j, info |-> 192] : j \in DOMAIN c}
          ELSE {})

\* the hash records of the chain c, the last one pointing to `tail'
ChainHash(s, c, tail, v) ==
    LET keys == {<<j, t>> : j \in DOMAIN c, t \in 0 .. s}
        loc(jt) == <<FixtureTable(s, c[jt[1]], jt[2]), c[jt[1]] % RecordsPerTable>>
        next(j) == IF j < Len(c) THEN c[j + 1] ELSE tail
        live(j) == [info |-> IF v.kind = "status" /\ v.at = j THEN v.info ELSE 192,
                    nextblock |-> next(j)]
        rec(jt) ==
            IF v.kind = "stale" /\ v.at = jt[1]
            THEN (IF jt[2] = 0 THEN [info |-> 0, nextblock |-> c[1]] ELSE live(jt[1]))
            ELSE (IF jt[2] = 0 THEN live(jt[1]) ELSE ZeroHash)
    IN  [k \in {loc(jt) : jt \in keys} |->
            rec(CHOOSE jt \in keys : loc(jt) = k)]

ReadDisk(e, alloc, c, tail, v, sz) ==
    LET s == table_size_shift_of(e)
        p == FixturePhys(s, FtBlock)
    IN  [len |-> DataStart + p * BlockSize + FileRecordSize,
         first4 |-> "CON ",
         header |-> [entry_id |-> e, filetable_blockcount |-> 1,
                     filetable_blocknumber |-> FtBlock,
                     allocated_count |-> alloc],
         hash |-> ChainHash(s, c, tail, v) @@
                  (<<FixtureTable(s, FtBlock, 0), FtBlock % RecordsPerTable>>
                     :> [info |-> 192, nextblock |-> EndNext]),
         dir |-> (p :> <<[name |-> <<97>>, flags |-> 0, firstblock |-> c[1],
                          pathindex |-> 65535, size |-> sz]>>)]

ReadDisks ==
    UNION {{ReadDisk(e, alloc, c, tail, v, sz) :
               v \in ChainVariants(table_size_shift_of(e), c),
               alloc \in {170, 172}, tail \in {EndNext, 0, c[1]}, sz \in FileSizes} :
           e \in EntryIds, c \in Chains}

ReadInit ==
    /\ disk \in ReadDisks
    /\ fd_pos = 0
    /\ self = <<>>
    /\ pc = "start"
    /\ err = ""
    /\ fl_i = 0 /\ a = 0 /\ path_components = <<>> /\ paths = <<>>
    /\ q = <<>> /\ ans = NoAns
    /\ rf_size = 0 /\ rf_block = 0 /\ rf_info = 0 /\ rf_buf = <<>>
    /\ tool = <<>> /\ fs = <<>>

\* the container is opened, then read_file is called on its record
ReadNext ==
    \/ InitMagicOk
    \/ InitParseHeader
    \/ ParseFiletable
    \/ WalkFinish
    \/ ReadFileCall
    \/ ReadFileIter
    \/ ReadFileReturn

SpecRead == ReadInit /\ [][ReadNext]_vars

(***************************************************************************)
(* The same containers read with and without a size given by the caller    *)
(***************************************************************************)
\* sizes read_file is called with when the caller gives one: nothing, one
\* block less a byte, and one byte more than MaxChain blocks
ExplicitSizes == {0, BlockSize - 1, MaxChain * BlockSize + 1}

\* lines 206-215: read_file(filelisting, size) with the size given
ReadFileCallSized ==
    /\ pc = "open"
    /\ \E i \in DOMAIN self.filelistings, n \in ExplicitSizes :
           /\ q' = [op |-> "read_file", filelisting |-> i, size |-> n, pos |-> fd_pos]
           /\ rf_size' = n
           /\ rf_block' = self.filelistings[i].firstblock
    /\ rf_info' = 128
    /\ rf_buf' = <<>>
    /\ ans' = NoAns
    /\ pc' = "read_file"
    /\ UNCHANGED <<toolVars, disk, fd_pos, self, err, openVars>>

SizedDisks ==
    UNION {{ReadDisk(e, alloc, c, tail, v, sz) :
               v \in ChainVariants(table_size_shift_of(e), c),
               alloc \in {170, 172}, tail \in {EndNext, 0, c[1]},
               sz \in {1, BlockSize + 1}} :
           e \in EntryIds, c \in {x \in Chains : Len(x) <= 2}}

SizedInit ==
    /\ disk \in SizedDisks
    /\ fd_pos = 0
    /\ self = <<>>
    /\ pc = "start"
    /\ err = ""
    /\ fl_i = 0 /\ a = 0 /\ path_components = <<>> /\ paths = <<>>
    /\ q = <<>> /\ ans = NoAns
    /\ rf_size = 0 /\ rf_block = 0 /\ rf_info = 0 /\ rf_buf = <<>>
    /\ tool = <<>> /\ fs = <<>>

SizedNext ==
    \/ InitMagicOk
    \/ InitParseHeader
    \/ ParseFiletable
    \/ WalkFinish
    \/ ReadFileCall
    \/ ReadFileCallSized
    \/ ReadFileIter
    \/ ReadFileReturn

SpecSized == SizedInit /\ [][SizedNext]_vars

(***************************************************************************)
(* Calls on an open container: get_blockhash, verify_block, fix_blocknum,  *)
(* read_block, read_filetable and read_file, in any order, one at a time.  *)
(***************************************************************************)
\* verify_block with the comparison left out
verify_block_true(blockhash) ==
    LET data == read_block(fix_blocknum(blockhash.blocknum), BlockSize)
    IN  [result |-> TRUE, pos |-> data.off + data.n]

\* verify_block comparing with a copy of the block kept from an earlier read
verify_block_kept(blockhash) ==
    LET data == read_block(fix_blocknum(blockhash.blocknum), BlockSize)
    IN  [result |-> blockhash.hash = sha1(data), pos |-> fd_pos]

\* lines 260-264
verify_block(blockhash) ==
    LET data == read_block(fix_blocknum(blockhash.blocknum), BlockSize)
    IN  [result |-> blockhash.hash = sha1(data), pos |-> data.off + data.n]

MaxTableBlocks == 2

\* a logical block beyond the last block of the byte source, hash table
\* included; it ends the chains here in place of 0xFFFFFF, whose byte offset
\* is beyond the integers TLC computes with
FarNext == 2 * RecordsPerTable

\* logical blocks the calls are made with: the data blocks, the file table
\* and the block beyond the end
CallBlocks == DataBlocks \cup {FtBlock, FarNext}

\* get_blockhash(blocknum, table_offset)
CallGetBlockhash ==
    /\ pc = "open"
    /\ \E b \in CallBlocks, t \in {0, 1} :
           LET h == get_blockhash(b, t)
           IN  /\ t <= self.table_size_shift
               /\ q' = [op |-> "get_blockhash", blocknum |-> b, table_offset |-> t]
               /\ ans' = IF h.ok
                         THEN [done |-> {"get_blockhash"},
                               blockhash |-> [x \in DOMAIN h \ {"ok", "pos"} |-> h[x]]]
                         ELSE [done |-> {"get_blockhash"}, raised |-> h.err]
               /\ fd_pos' = h.pos
    /\ UNCHANGED <<toolVars, disk, self, pc, err, openVars, readVars>>

\* verify_block(blockhash) on the record get_blockhash just returned
CallVerifyBlock ==
    /\ pc = "open"
    /\ ans.done = {"get_blockhash"}
    /\ "blockhash" \in DOMAIN ans
    /\ LET r == verify_block(ans.blockhash)
       IN  /\ ans' = [done |-> {"verify_block"}, blockhash |-> ans.blockhash,
                      result |-> r.result]
           /\ fd_pos' = r.pos
    /\ q' = [op |-> "verify_block"]
    /\ UNCHANGED <<toolVars, disk, self, pc, err, openVars, readVars>>

\* fix_blocknum(block_num) on the open container
CallFixBlocknumOnOpen ==
    /\ pc = "open"
    /\ \E b \in {FarNext} :
           /\ q' = [op |-> "fix_blocknum", block_num |-> b]
           /\ ans' = [done |-> {"fix_blocknum"}, phys |-> fix_blocknum(b)]
    /\ UNCHANGED <<toolVars, disk, fd_pos, self, pc, err, openVars, readVars>>

\* read_block(blocknum, length)
CallReadBlock ==
    /\ pc = "open"
    /\ \E b \in {fix_blocknum(1), fix_blocknum(FarNext)}, length \in {1, BlockSize} :
           LET data == read_block(b, length)
           IN  /\ q' = [op |-> "read_block", blocknum |-> b, length |-> length]
               /\ ans' = [done |-> {"read_block"}, bytes |-> <<data>>]
               /\ fd_pos' = data.off + data.n
    /\ UNCHANGED <<toolVars, disk, self, pc, err, openVars, readVars>>

\* read_filetable(firstblock, numblocks)
CallReadFiletable ==
    /\ pc = "open"
    /\ \E b \in CallBlocks \ {0, FarNext}, n \in 0 .. MaxTableBlocks :
           LET r == read_filetable(b, n)
           IN  /\ n = 0 => b = FtBlock
               /\ q' = [op |-> "read_filetable", firstblock |-> b, numblocks |-> n]
               /\ ans' = IF r.ok THEN [done |-> {"read_filetable"}, bytes |-> r.data]
                         ELSE [done |-> {"read_filetable"}, raised |-> r.err]
               /\ fd_pos' = r.pos
    /\ UNCHANGED <<toolVars, disk, self, pc, err, openVars, readVars>>

\* the digest stored for a block when it was written
WrittenDigest == [content |-> 0, n |-> BlockSize]

\* chains the containers hold
CallChains == {<<1>>, <<1, 170>>, <<170, 1>>}

\* as ChainVariants, and one record whose status byte is none of the four
CallVariants(s, c) ==
    ChainVariants(s, c)
    \cup {[kind |-> "status", at |-> j, info |-> 1] : j \in DOMAIN c}

\* a container as ReadDisk builds it, with a digest in every hash record and
\* the bytes of the first block of the file changed since
CallDisk(e, alloc, c, tail, v, sz) ==
    LET d == ReadDisk(e, alloc, c, tail, v, sz)
    IN  [len |-> d.len, first4 |-> d.first4, header |-> d.header,
         hash |-> [k \in DOMAIN d.hash |->
                      IF d.hash[k] = ZeroHash THEN ZeroHash
                      ELSE [info |-> d.hash[k].info,
                            nextblock |-> IF d.hash[k].nextblock = EndNext
                                          THEN FarNext ELSE d.hash[k].nextblock,
                            hash |-> WrittenDigest]],
         dir |-> d.dir,
         content |-> (FixturePhys(table_size_shift_of(e), c[1]) :> 1)]

CallDisks ==
    UNION {{CallDisk(e, alloc, c, tail, v, sz) :
               v \in CallVariants(table_size_shift_of(e), c),
               alloc \in {170, 172}, tail \in {EndNext, 0},
               sz \in {1, BlockSize + 1}} :
           e \in EntryIds, c \in CallChains}

CallsInit ==
    /\ disk \in CallDisks
    /\ fd_pos = 0
    /\ self = <<>>
    /\ pc = "start"
    /\ err = ""
    /\ fl_i = 0 /\ a = 0 /\ path_components = <<>> /\ paths = <<>>
    /\ q = <<>> /\ ans = NoAns
    /\ rf_size = 0 /\ rf_block = 0 /\ rf_info = 0 /\ rf_buf = <<>>
    /\ tool = <<>> /\ fs = <<>>

CallsNext ==
    \/ InitMagicOk
    \/ InitParseHeader
    \/ ParseFiletable
    \/ WalkFinish
    \/ CallGetBlockhash
    \/ CallVerifyBlock
    \/ CallFixBlocknumOnOpen
    \/ CallReadBlock
    \/ CallReadFiletable
    \/ ReadFileCall
    \/ ReadFileIter
    \/ ReadFileIterFail
    \/ ReadFileReturn

SpecCalls == CallsInit /\ [][CallsNext]_vars

(***************************************************************************)
(* Two threads on one open container.  Each calls read_block, as read_file *)
(* and verify_block do, for a block of its own; the seek and the read of   *)
(* read_block are two calls on the one file object self.fd, and the other  *)
(* thread may run between them.  Here pc, q and ans hold one value for     *)
(* each thread.                                                            *)
(***************************************************************************)
Threads == {1, 2}

\* the arguments the threads call read_block with: fix_blocknum(block), length
ThreadCalls == {[block |-> b, length |-> n] : b \in {1, 169, 170}, n \in {1, BlockSize}}

ThreadsInit ==
    /\ disk = [len |-> DataStart + 176 * BlockSize]
    /\ fd_pos = HeaderSize
    /\ self \in {[table_size_shift |-> s, fd |-> "open"] : s \in {0, 1}}
    /\ pc = [t \in Threads |-> "seek"]
    /\ err = ""
    /\ fl_i = 0 /\ a = 0 /\ path_components = <<>> /\ paths = <<>>
    /\ q \in [Threads -> ThreadCalls]
    /\ ans = [t \in Threads |-> NoAns]
    /\ rf_size = 0 /\ rf_block = 0 /\ rf_info = 0 /\ rf_buf = <<>>
    /\ tool = <<>> /\ fs = <<>>

\* line 288: self.fd.seek(0xC000 + blocknum * 0x1000)
ThreadSeek(t) ==
    /\ pc[t] = "seek"
    /\ fd_pos' = DataStart + fix_blocknum(q[t].block) * BlockSize
    /\ pc' = [pc EXCEPT ![t] = "read"]
    /\ UNCHANGED <<toolVars, disk, self, err, openVars, readVars, q, ans>>

\* line 289: return self.fd.read(length), from wherever the cursor is
ThreadRead(t) ==
    /\ pc[t] = "read"
    /\ LET n == Min(q[t].length, Max(0, disk.len - fd_pos))
       IN  /\ ans' = [ans EXCEPT ![t] = [done |-> {"read_block"},
                                        bytes |-> <<[off |-> fd_pos, n |-> n]>>]]
           /\ fd_pos' = fd_pos + n
    /\ pc' = [pc EXCEPT ![t] = "done"]
    /\ UNCHANGED <<toolVars, disk, self, err, openVars, readVars, q>>

ThreadsNext == \E t \in Threads : ThreadSeek(t) \/ ThreadRead(t)

SpecThreads == ThreadsInit /\ [][ThreadsNext]_vars

(***************************************************************************)
(* The command-line tools.  Each opens a container with STFS(path), as     *)
(* above, and works on its allfiles.  A str is the sequence of its         *)
(* characters.  The destination directory (fs) is the set of directories   *)
(* and the files below it, named by their path components (<<>> is the     *)
(* destination itself), with the log of the operations that changed it.    *)
(***************************************************************************)
\* "/songs/", "/songs/songs.dta" and "/songs_upgrades/upgrades.dta"
SongsPadKey == <<"/", "s", "o", "n", "g", "s", "/">>
SongsDtaKey ==
    <<"/", "s", "o", "n", "g", "s", "/", "s", "o", "n", "g", "s", ".", "d", "t", "a">>
UpgradesDtaKey ==
    <<"/", "s", "o", "n", "g", "s", "_", "u", "p", "g", "r", "a", "d", "e", "s", "/", "u", "p", "g", "r", "a", "d", "e", "s", ".", "d", "t", "a">>

\* str.split("/")
RECURSIVE Split(_)
Split(str) ==
    IF \A i \in DOMAIN str : str[i] # "/" THEN <<str>>
    ELSE LET k == CHOOSE i \in DOMAIN str :
                      str[i] = "/" /\ \A j \in 1 .. (i - 1) : str[j] # "/"
         IN  <<SubSeq(str, 1, k - 1)>> \o Split(SubSeq(str, k + 1, Len(str)))

\* sub in str
Contains(str, sub) ==
    \E k \in 0 .. (Len(str) - Len(sub)) : SubSeq(str, k + 1, k + Len(sub)) = sub

\* any(song in filename for song in songs)
AnySongIn(filename, songs) == \E j \in DOMAIN songs : Contains(filename, songs[j])

\* the components the operating system resolves a path to: "dest//a/b/" is
\* a, b below dest
OsParts(str) == SelectSeq(Split(str), LAMBDA c : c # <<>>)

\* Path(filename).name
PathName(filename) ==
    LET parts == OsParts(filename)
    IN  IF parts = <<>> THEN <<>> ELSE parts[Len(parts)]

Parent(parts) == SubSeq(parts, 1, Len(parts) - 1)

FilePaths(f) == {x.path : x \in f.files}

\* shutil.rmtree(dest)
rmtree(f) ==
    [dirs |-> {}, files |-> {}, log |-> Append(f.log, [op |-> "rmtree", path |-> <<>>])]

\* dest.mkdir(parents=True, exist_ok=True)
mkdir_exist_ok(f) ==
    IF <<>> \in f.dirs THEN f
    ELSE [f EXCEPT !.dirs = {<<>>}, !.log = Append(@, [op |-> "mkdir", path |-> <<>>])]

\* try: os.mkdir(f"{dest}/{rel}") except OSError: pass
os_mkdir(f, rel) ==
    LET parts == OsParts(rel)
    IN  IF /\ parts # <<>>
           /\ parts \notin f.dirs
           /\ parts \notin FilePaths(f)
           /\ Parent(parts) \in f.dirs
        THEN [f EXCEPT !.dirs = @ \cup {parts},
                       !.log = Append(@, [op |-> "mkdir", path |-> parts])]
        ELSE f

\* open(f"{dest}/{rel}", "wb").write(data): the file system after it, or the
\* OSError that open raises
open_wb(f, rel, data) ==
    LET parts == OsParts(rel)
        trailing == rel # <<>> /\ rel[Len(rel)] = "/"
    IN  IF \E k \in 1 .. (Len(parts) - 1) : SubSeq(parts, 1, k) \in FilePaths(f)
        THEN [ok |-> FALSE, err |-> "NotADirectoryError"]
        ELSE IF parts # <<>> /\ Parent(parts) \notin f.dirs
        THEN [ok |-> FALSE, err |-> "FileNotFoundError"]
        ELSE IF trailing \/ parts = <<>> \/ parts \in f.dirs
        THEN [ok |-> FALSE, err |-> "IsADirectoryError"]
        ELSE [ok |-> TRUE,
              fs |-> [f EXCEPT !.files = {x \in @ : x.path # parts}
                                           \cup {[path |-> parts, bytes |-> data]},
                               !.log = Append(@, [op |-> "write", path |-> parts])]]

\* the keys of a dict in the order of their first insertion
RECURSIVE KeysInOrder(_)
KeysInOrder(ps) ==
    IF ps = <<>> THEN <<>>
    ELSE LET front == KeysInOrder(SubSeq(ps, 1, Len(ps) - 1))
             last == ps[Len(ps)]
         IN  IF \E j \in DOMAIN front : front[j] = last THEN front
             ELSE Append(front, last)

\* "for filename in con.allfiles"
Keys == KeysInOrder(paths)

\* con.allfiles[filename]
Entry(filename) == self.filelistings[self.allfiles[filename]]

\* con.allfiles[key] under "except KeyError: pass": the record, or None (0)
DictGet(key) == IF key \in DOMAIN self.allfiles THEN self.allfiles[key] ELSE 0

ToolNames ==
    {"stfs_file_stat", "stfs_extract", "stfs_extract_on_root",
     "stfs_extract_selected_songs", "stfs_extract_selected_songs_on_root"}
Extractors == ToolNames \ {"stfs_file_stat"}
Hierarchical == {"stfs_extract", "stfs_extract_selected_songs"}
Selecting == {"stfs_extract_selected_songs", "stfs_extract_selected_songs_on_root"}

\* stfs_file_stat with "/songs/" listed as well
StatFiles_all(keys) == keys

\* stfs_file_stat.py lines 39-43
StatFiles(keys) == SelectSeq(keys, LAMBDA k : k # SongsPadKey)

\* bytes.decode() of what read_file returned, U+FEFF removed; Latin-1 when the
\* bytes are not UTF-8
DecodeFile(data) == Str([j \in DOMAIN data |-> [text_of |-> data[j]]])

\* which of the two files stfs_file_stat is about to read, and what follows
StatFileOf(k) == IF k = "dta" THEN tool.dta_file ELSE tool.upg_file
StatAfter(k) == IF k = "dta" THEN "upgrades" ELSE "returned"

\* the condition under which the destination is removed first
Cleans == IF tool.name \in Selecting THEN TRUE ELSE tool.clean_dest_dir

\* the condition of the "Create directories" loop
MakesDirs(filename) ==
    IF tool.name \in Selecting
    THEN AnySongIn(filename, tool.songs) /\ Entry(filename).isdirectory
    ELSE Entry(filename).isdirectory

\* lines 23-31: os.mkdir for every prefix of the components
RECURSIVE MkdirChain(_, _, _)
MkdirChain(f, dircomponents, n) ==
    IF n > Len(dircomponents) THEN f
    ELSE MkdirChain(os_mkdir(f, Join(<<"/">>, SubSeq(dircomponents, 1, n))),
                    dircomponents, n + 1)

\* the path below dest a file is written to
TargetOf(filename) ==
    IF tool.name \in Hierarchical THEN filename ELSE PathName(filename)

\* the writes the "Writing files" loop makes for one key, in order
Writes(filename) ==
    IF filename = SongsPadKey THEN <<>>
    ELSE IF tool.name \in Selecting
    THEN (IF filename = SongsDtaKey THEN <<TargetOf(filename)>> ELSE <<>>)
         \o (IF ~Entry(filename).isdirectory /\ AnySongIn(filename, tool.songs)
             THEN <<TargetOf(filename)>> ELSE <<>>)
    ELSE IF ~Entry(filename).isdirectory THEN <<TargetOf(filename)>> ELSE <<>>

\* stfs_file_stat(file_path): line 25 calls STFS(file_path)
StatCall ==
    /\ pc = "idle"
    /\ tool.name = "stfs_file_stat"
    /\ tool.at = "called"
    /\ tool' = [tool EXCEPT !.at = "collect"]
    /\ pc' = "start"
    /\ UNCHANGED <<disk, fd_pos, self, err, fs, openVars, addrVars, readVars>>

\* the extractors up to their call of STFS(stfs_file_path): the destination
\* is removed if asked for, and created
ExtractPrepare ==
    /\ pc = "idle"
    /\ tool.name \in Extractors
    /\ tool.at = "called"
    /\ fs' = mkdir_exist_ok(IF Cleans /\ <<>> \in fs.dirs THEN rmtree(fs) ELSE fs)
    /\ tool' = [tool EXCEPT !.at = IF tool.name \in Hierarchical THEN "dirs" ELSE "files",
                            !.i = 1, !.w = 1]
    /\ pc' = "start"
    /\ UNCHANGED <<disk, fd_pos, self, err, openVars, addrVars, readVars>>

\* the exception of STFS.__init__ leaves the tool, which catches nothing there
ToolOpenRaised ==
    /\ pc = "failed"
    /\ tool.at \notin {"called", "raised", "returned"}
    /\ tool' = [tool EXCEPT !.at = "raised"]
    /\ UNCHANGED <<disk, fd_pos, self, pc, err, fs, openVars, addrVars, readVars>>

\* stfs_file_stat.py lines 26-58: the status dict, the list of files and the
\* two look-ups
StatCollect ==
    /\ pc = "open"
    /\ tool.at = "collect"
    /\ tool' = [tool EXCEPT
                  !.status = [path |-> "file", name |-> "display_name",
                              desc |-> "display_description",
                              files |-> StatFiles(Keys), dta |-> Str(<<>>),
                              fileSize |-> disk.len],
                  !.dta_file = DictGet(SongsDtaKey),
                  !.upg_file = DictGet(UpgradesDtaKey),
                  !.at = "dta"]
    /\ UNCHANGED <<disk, fd_pos, self, pc, err, fs, openVars, addrVars, readVars>>

\* lines 60-61 and 70-71 with None: read_file raises AttributeError on
\* filelisting.size, which is caught
StatReadNone(k) ==
    /\ pc = "open"
    /\ tool.at = k
    /\ StatFileOf(k) = 0
    /\ tool' = [tool EXCEPT !.at = StatAfter(k)]
    /\ UNCHANGED <<disk, fd_pos, self, pc, err, fs, openVars, addrVars, readVars>>

\* the same lines with a record: read_file is called on it
StatRead(k) ==
    /\ tool.at = k
    /\ StatFileOf(k) # 0
    /\ ans = NoAns
    /\ ReadFileCall
    /\ q'.filelisting = StatFileOf(k)

\* lines 63-66 and 73-76: the text of the bytes goes into the status
StatDecode(k) ==
    /\ pc = "open"
    /\ tool.at = k
    /\ ans.done = {"read_file"}
    /\ tool' = [tool EXCEPT !.status = (k :> DecodeFile(ans.bytes)) @@ @,
                            !.at = StatAfter(k)]
    /\ ans' = NoAns
    /\ UNCHANGED <<disk, fd_pos, self, pc, err, fs, openVars, q, readVars>>

\* one key of the "Create directories" loop
ExtractMkdirs ==
    /\ pc = "open"
    /\ tool.at = "dirs"
    /\ tool.i <= Len(Keys)
    /\ fs' = IF MakesDirs(Keys[tool.i])
             THEN MkdirChain(fs, Split(Tail(Keys[tool.i])), 1) ELSE fs
    /\ tool' = [tool EXCEPT !.i = @ + 1]
    /\ UNCHANGED <<disk, fd_pos, self, pc, err, openVars, addrVars, readVars>>

\* the loop is over, the "Writing files" loop begins
ExtractDirsDone ==
    /\ pc = "open"
    /\ tool.at = "dirs"
    /\ tool.i > Len(Keys)
    /\ tool' = [tool EXCEPT !.at = "files", !.i = 1, !.w = 1]
    /\ UNCHANGED <<disk, fd_pos, self, pc, err, fs, openVars, addrVars, readVars>>

\* file_bytes = con.read_file(con.allfiles[filename])
ExtractRead ==
    /\ tool.at = "files"
    /\ tool.i <= Len(Keys)
    /\ tool.w <= Len(Writes(Keys[tool.i]))
    /\ ans = NoAns
    /\ ReadFileCall
    /\ q'.filelisting = self.allfiles[Keys[tool.i]]

\* open(new_file_path, "wb").write(file_bytes)
ExtractWrite ==
    /\ pc = "open"
    /\ tool.at = "files"
    /\ ans.done = {"read_file"}
    /\ LET r == open_wb(fs, Writes(Keys[tool.i])[tool.w], ans.bytes)
       IN  IF r.ok
           THEN /\ fs' = r.fs
                /\ tool' = [tool EXCEPT !.w = @ + 1]
                /\ err' = err
           ELSE /\ fs' = fs
                /\ tool' = [tool EXCEPT !.at = "raised"]
                /\ err' = r.err
    /\ ans' = NoAns
    /\ UNCHANGED <<disk, fd_pos, self, pc, openVars, q, readVars>>

\* the next key of the "Writing files" loop
ExtractNext ==
    /\ pc = "open"
    /\ tool.at = "files"
    /\ tool.i <= Len(Keys)
    /\ tool.w > Len(Writes(Keys[tool.i]))
    /\ ans = NoAns
    /\ tool' = [tool EXCEPT !.i = @ + 1, !.w = 1]
    /\ UNCHANGED <<disk, fd_pos, self, pc, err, fs, openVars, addrVars, readVars>>

\* the extractor returns
ExtractReturn ==
    /\ pc = "open"
    /\ tool.at = "files"
    /\ tool.i > Len(Keys)
    /\ tool' = [tool EXCEPT !.at = "returned"]
    /\ UNCHANGED <<disk, fd_pos, self, pc, err, fs, openVars, addrVars, readVars>>

\* names of the records
NameSongs == <<115, 111, 110, 103, 115>>
NameSongsDta == <<115, 111, 110, 103, 115, 46, 100, 116, 97>>
NameUpgrades == <<115, 111, 110, 103, 115, 95, 117, 112, 103, 114, 97, 100, 101, 115>>
NameUpgradesDta == <<117, 112, 103, 114, 97, 100, 101, 115, 46, 100, 116, 97>>

\* a directory record and a file record of one data block, block 1
DirSlice(name, pathindex) ==
    [name |-> name, flags |-> 128, firstblock |-> 0, pathindex |-> pathindex, size |-> 0]
FileSlice(name, pathindex, size) ==
    [name |-> name, flags |-> 0, firstblock |-> 1, pathindex |-> pathindex, size |-> size]

\* file tables: a song pack with its padding; an upgrades pack with its
\* padding; a pack without songs.dta; an empty table; one file in the root;
\* both dta files; a file recorded below a file
ToolTables ==
    {<<DirSlice(NameSongs, 65535), DirSlice(<<97>>, 0), FileSlice(<<98>>, 1, 1),
       FileSlice(NameSongsDta, 0, 2), ZeroSlice>>,
     <<DirSlice(NameUpgrades, 65535), FileSlice(NameUpgradesDta, 0, 1),
       ZeroSlice, ZeroSlice>>,
     <<DirSlice(NameSongs, 65535), DirSlice(<<97>>, 0), FileSlice(<<98>>, 1, 1),
       ZeroSlice>>,
     <<>>,
     <<FileSlice(<<98>>, 65535, 1)>>,
     <<DirSlice(NameSongs, 65535), FileSlice(NameSongsDta, 0, 2),
       DirSlice(NameUpgrades, 65535), FileSlice(NameUpgradesDta, 2, 1), ZeroSlice>>,
     <<FileSlice(<<97>>, 65535, 1), FileSlice(<<98>>, 0, 1)>>}

\* a container with that file table in block 2 and the data block 1
ToolDisk(e, slices) ==
    LET d == DeepDisk("CON ", e, 2, slices)
    IN  [d EXCEPT !.hash = @ @@ (<<FixtureTable(table_size_shift_of(e), 1, 0), 1>>
                                   :> [info |-> 192, nextblock |-> EndNext])]

\* files STFS() refuses: no magic, a short header, a file table whose one
\* record has a parent index the list rejects
RefusedDisks ==
    {ShallowDisk("STFS", DataStart, 44302, 0),
     ShallowDisk("CON ", HeaderSize - 1, 44302, 0),
     ToolDisk(44302, <<[ZeroSlice EXCEPT !.name = <<97>>, !.pathindex = 65534]>>)}

ToolDisks == {ToolDisk(e, sl) : e \in EntryIds, sl \in ToolTables} \cup RefusedDisks

ToolCall(name, clean, songs) ==
    [name |-> name, clean_dest_dir |-> clean, songs |-> songs, at |-> "called",
     i |-> 0, w |-> 0, status |-> <<>>, dta_file |-> 0, upg_file |-> 0]

\* the --songs lists
SongLists == {<< <<"b">> >>, << <<"u">>, <<"a">> >>}

ToolCalls ==
    {ToolCall("stfs_file_stat", FALSE, <<>>)}
    \cup {ToolCall(n, c, <<>>) : n \in {"stfs_extract", "stfs_extract_on_root"},
                                 c \in BOOLEAN}
    \cup {ToolCall(n, FALSE, sg) : n \in Selecting, sg \in SongLists}

\* the destination before the tool runs: absent, or a directory that holds a
\* directory "songs" and a file "b"
FsAbsent == [dirs |-> {}, files |-> {}, log |-> <<>>]
FsOld ==
    [dirs |-> {<<>>, <<Decode(NameSongs)>>},
     files |-> {[path |-> << <<"b">> >>, bytes |-> <<[off |-> 0, n |-> 1]>>]},
     log |-> <<>>]

ToolsInit ==
    /\ disk \in ToolDisks
    /\ fd_pos = 0
    /\ self = <<>>
    /\ pc = "idle"
    /\ err = ""
    /\ fl_i = 0 /\ a = 0 /\ path_components = <<>> /\ paths = <<>>
    /\ q = <<>> /\ ans = NoAns
    /\ rf_size = 0 /\ rf_block = 0 /\ rf_info = 0 /\ rf_buf = <<>>
    /\ tool \in ToolCalls
    /\ fs \in {FsAbsent, FsOld}

ToolsNext ==
    \/ StatCall
    \/ ExtractPrepare
    \/ InitMagicOk
    \/ InitMagicFail
    \/ InitParseHeader
    \/ InitParseHeaderShort
    \/ ParseFiletable
    \/ WalkStep
    \/ WalkIndexError
    \/ WalkFinish
    \/ ToolOpenRaised
    \/ StatCollect
    \/ \E k \in {"dta", "upgrades"} : StatReadNone(k) \/ StatRead(k) \/ StatDecode(k)
    \/ ExtractMkdirs
    \/ ExtractDirsDone
    \/ ExtractRead
    \/ ExtractWrite
    \/ ExtractNext
    \/ ExtractReturn
    \/ ReadFileIter
    \/ ReadFileReturn

SpecTools == ToolsInit /\ [][ToolsNext]_vars

(***************************************************************************)
(* Claims on address translation (SpecAddr)                                *)
(***************************************************************************)
\* C2: for either table_size_shift and logical blocks b1 < b2, fix_blocknum(b1) <
\* fix_blocknum(b2), the adjustment fix_blocknum(b) - b does not decrease from b1
\* to b2, and equal blocks translate to equal physical blocks.
C2_FixBlocknumIncreasing ==
    "fix" \in ans.done =>
        /\ q.b1 < q.b2 => /\ ans.phys1 < ans.phys2
                          /\ ans.phys1 - q.b1 <= ans.phys2 - q.b2
        /\ q.b2 < q.b1 => /\ ans.phys2 < ans.phys1
                          /\ ans.phys2 - q.b2 <= ans.phys1 - q.b1
        /\ q.b1 = q.b2 => ans.phys1 = ans.phys2

\* two blocks on either side of a table boundary beyond the first have been translated
C2_Witness ==
    /\ "fix" \in ans.done
    /\ q.b1 = 2 * RecordsPerTable - 1
    /\ q.b2 = 2 * RecordsPerTable
    /\ self.table_size_shift = 1
    /\ ans.phys2 - ans.phys1 = 3

\* C3: with table_size_shift = 0, fix_blocknum(b) = b for b in 0..0xA9 and
\* fix_blocknum(0xAA) = 0xAC.
C3_FirstBoundary ==
    ("fix" \in ans.done /\ self.table_size_shift = 0) =>
        /\ q.b1 \in 0 .. 169 => ans.phys1 = q.b1
        /\ q.b1 = 170 => ans.phys1 = 172
        /\ q.b2 \in 0 .. 169 => ans.phys2 = q.b2
        /\ q.b2 = 170 => ans.phys2 = 172

\* block 0xAA has been translated to 0xAC, block 0xA9 to itself
C3_Witness ==
    /\ "fix" \in ans.done
    /\ self.table_size_shift = 0
    /\ q.b1 = 169 /\ ans.phys1 = 169
    /\ q.b2 = 170 /\ ans.phys2 = 172

\* C4: for every logical block b, shift s and selector t with 0 <= t <= s,
\* get_blockhash takes slot b mod 0xAA, bytes [slot*0x18, slot*0x18+0x18) inside the
\* 0x1000 byte block, of table block fix_blocknum(b - b mod 0xAA) - (1 << s) + t.
C4_HashRecordLocation ==
    ("hash" \in ans.done /\ q.t <= self.table_size_shift) =>
        /\ ans.record = q.b1 % RecordsPerTable
        /\ ans.lo = ans.record * HashRecordSize
        /\ ans.hi = ans.lo + HashRecordSize
        /\ ans.lo >= 0 /\ ans.hi <= BlockSize
        /\ ans.tablenum = fix_blocknum(q.b1 - (q.b1 % RecordsPerTable))
                            - Shl(1, self.table_size_shift) + q.t

\* the secondary table of a group beyond the level-1 period has been located
C4_Witness ==
    /\ "hash" \in ans.done
    /\ self.table_size_shift = 1 /\ q.t = 1
    /\ q.b1 = Level1Period + 1
    /\ ans.record = 1
    /\ ans.tablenum = Level1Period + 342 + 4 - 2 + 1

\* C25: for every shift s, every pair of logical blocks b, b' and every selector
\* t with 0 <= t <= s, the table block get_blockhash(b, t) reads is different
\* from fix_blocknum(b'): no hash-table block is also addressed as a data
\* block.
C25_TableBlockIsNoDataBlock ==
    ("hash" \in ans.done /\ q.t <= self.table_size_shift) =>
        /\ \A b \in LowBlocks \cup SampleBlocks : ans.tablenum # fix_blocknum(b)
        /\ "fix" \in ans.done => (ans.tablenum # ans.phys1 /\ ans.tablenum # ans.phys2)

\* the secondary table block of the group of block 0x154 lies between the
\* data blocks 0x153 and 0x154, both translated
C25_Witness ==
    /\ "hash" \in ans.done /\ "fix" \in ans.done
    /\ self.table_size_shift = 1 /\ q.t = 1
    /\ q.b1 = 2 * RecordsPerTable /\ q.b2 = 2 * RecordsPerTable - 1
    /\ ans.phys2 < ans.tablenum
    /\ ans.tablenum < ans.phys1
    /\ ans.phys1 - ans.phys2 = 3

\* the query is the pair of blocks on either side of the table boundary at
\* k * 0xAA, which is no multiple of 0x70E4, and both have been translated
AcrossBoundary(k) ==
    /\ "fix" \in ans.done
    /\ q.b2 = k * RecordsPerTable
    /\ q.b1 = q.b2 - 1
    /\ q.b2 % Level1Period # 0

\* C19 as stated: for either shift s and every k >= 1 with k * 0xAA no multiple
\* of 0x70E4, fix_blocknum(k * 0xAA) - fix_blocknum(k * 0xAA - 1) = 1 + (1 << s).
C19_BoundarySkipFromOne ==
    \A k \in 1 .. 171 :
        AcrossBoundary(k) =>
            ans.phys2 - ans.phys1 = 1 + Shl(1, self.table_size_shift)

\* C19 amended: the same for every k >= 2; at k = 1 the first level-1 table
\* comes with the second hash table and the difference is 1 + (2 << s).
C19_BoundarySkip ==
    /\ \A k \in 2 .. 171 :
           AcrossBoundary(k) =>
               ans.phys2 - ans.phys1 = 1 + Shl(1, self.table_size_shift)
    /\ AcrossBoundary(1) =>
           ans.phys2 - ans.phys1 = 1 + Shl(2, self.table_size_shift)

\* the boundary at 171 * 0xAA, beyond the level-1 period, has been crossed
\* with two-block tables
C19_Witness ==
    /\ AcrossBoundary(171)
    /\ self.table_size_shift = 1
    /\ ans.phys2 - ans.phys1 = 3

\* the first boundary has been crossed with two-block tables: four blocks skipped
C19_WitnessFirst ==
    /\ AcrossBoundary(1)
    /\ self.table_size_shift = 1
    /\ ans.phys2 - ans.phys1 = 5

(***************************************************************************)
(* Claims on opening a container (Spec)                                    *)
(***************************************************************************)
\* the slices of the file table as they are in the byte source
InputSlices ==
    IF DOMAIN disk.dir = {} THEN <<>>
    ELSE disk.dir[CHOOSE p \in DOMAIN disk.dir : TRUE]

\* C5: a byte source whose first 4 bytes are not "CON ", "PIRS" or "LIVE" fails
\* with the magic error before the header is parsed: the object never gets a
\* header field, filelistings or allfiles.
C5_BadMagicBuildsNothing ==
    disk.first4 \notin MagicTags =>
        /\ pc \in {"start", "failed"}
        /\ DOMAIN self \subseteq {"filename", "fd"}
        /\ pc = "failed" => err = "STFS Magic not found"

\* a full-length byte source with an unknown tag has been refused
C5_Witness ==
    /\ pc = "failed"
    /\ disk.first4 = "STFS"
    /\ disk.len >= HeaderSize
    /\ err = "STFS Magic not found"
    /\ "filelistings" \notin DOMAIN self

\* C6: a byte source with a recognized magic and fewer than 0x971A bytes fails
\* in parse_header, and parse_filetable never runs for it.
C6_ShortHeaderFails ==
    (disk.first4 \in MagicTags /\ disk.len < HeaderSize) =>
        /\ pc \in {"start", "header", "failed"}
        /\ "filelistings" \notin DOMAIN self
        /\ "allfiles" \notin DOMAIN self
        /\ "table_size_shift" \notin DOMAIN self
        /\ pc = "failed" => err = "STFS Data Too Short"

\* a byte source one byte short of the header has been refused by parse_header
C6_Witness ==
    /\ pc = "failed"
    /\ disk.first4 \in MagicTags
    /\ disk.len = HeaderSize - 1
    /\ err = "STFS Data Too Short"
    /\ self.data.n = HeaderSize - 1

\* C14: after a successful header parse table_size_shift is 0 if bits 12..15 of
\* entry_id + 0xFFF are 0xB and 1 otherwise; it is always 0 or 1, an index of
\* the two addressing triples.
C14_TableSizeShift ==
    (pc \in {"filetable", "paths", "open"}) =>
        /\ self.table_size_shift =
               (IF ((disk.header.entry_id + 4095) % 65536) \div 4096 = 11 THEN 0 ELSE 1)
        /\ self.table_size_shift \in {0, 1}
        /\ table_spacing(self.table_size_shift) \in {171, 172}

\* a header whose entry_id is 0x7FFFB000 has been parsed: one-block tables
C14_Witness ==
    /\ pc = "open"
    /\ disk.header.entry_id = 2147463168
    /\ self.table_size_shift = 0

\* a header whose entry_id is 0xA000 has been parsed: two-block tables
C14_WitnessTwo ==
    /\ pc = "open"
    /\ disk.header.entry_id = 40960
    /\ self.table_size_shift = 1

\* C15: the file handle opened by STFS.__init__ is released on every exit
\* path: when the open has failed the handle is closed.
C15_HandleReleased ==
    pc = "failed" => self.fd = "closed"

\* C7: slices whose name is empty after trimming NUL bytes are dropped: the
\* records of filelistings are as many as the slices with a non-empty name, and
\* no record of filelistings or allfiles has an empty name.
C7_EmptyNamesDropped ==
    (pc \in {"paths", "open"}) =>
        /\ Len(self.filelistings) =
               Cardinality({i \in DOMAIN InputSlices :
                               StripNul(InputSlices[i].name) # <<>>})
        /\ \A i \in DOMAIN self.filelistings :
               self.filelistings[i].filename.val # <<>>
        /\ \A k \in DOMAIN self.allfiles :
               self.filelistings[self.allfiles[k]].filename.val # <<>>

\* following pathindex from record i reaches, within `fuel` valid steps, a
\* pathindex that is neither -1 nor an index of the record array
RECURSIVE ReachesBadIndex(_, _)
ReachesBadIndex(i, fuel) ==
    LET pi == self.filelistings[i].pathindex
    IN  IF pi = -1 THEN FALSE
        ELSE IF pi \notin 0 .. (Len(self.filelistings) - 1) THEN TRUE
        ELSE IF fuel = 0 THEN FALSE
        ELSE ReachesBadIndex(pi + 1, fuel - 1)

\* C8: when the walk for a record reaches a pathindex that is neither -1 nor a
\* valid index, no path is produced for that record (the open fails instead).
C8_BadIndexGivesNoPath ==
    (pc \in {"paths", "open"}) =>
        \A i \in DOMAIN paths : ~ReachesBadIndex(i, Len(self.filelistings))

\* the records from the root-most ancestor of i down to i, when pathindex
\* leads from i to a root through valid indexes in at most `fuel` steps;
\* <<>> otherwise
RECURSIVE ChainTo(_, _)
ChainTo(i, fuel) ==
    LET pi == self.filelistings[i].pathindex
    IN  IF pi = -1 THEN <<i>>
        ELSE IF pi \notin 0 .. (Len(self.filelistings) - 1) \/ fuel = 0 THEN <<>>
        ELSE LET up == ChainTo(pi + 1, fuel - 1)
             IN  IF up = <<>> THEN <<>> ELSE Append(up, i)

\* "/" followed by the decoded names of the chain joined by "/"
ExpectedPath(chain) ==
    <<"/">> \o Join(<<"/">>, [k \in DOMAIN chain |->
                                Decode(self.filelistings[chain[k]].filename.val)])

\* C9: for every record whose pathindex chain reaches a root through valid
\* indexes, the path built is "/" followed by the decoded names from the
\* root-most ancestor down to the record, joined by "/", and allfiles maps that
\* path to the record when no other record resolved to the same path.
C9_PathOfValidChain ==
    (pc \in {"paths", "open"}) =>
        \A i \in DOMAIN paths :
            LET chain == ChainTo(i, Len(self.filelistings))
            IN  chain # <<>> =>
                    /\ paths[i] = ExpectedPath(chain)
                    /\ paths[i] \in DOMAIN self.allfiles
                    /\ (\A j \in DOMAIN paths : j # i => paths[j] # paths[i])
                           => self.allfiles[paths[i]] = i

\* a three-level tree has been resolved: "/a", "/a/b" and "/a/b/a"
C9_Witness ==
    /\ pc = "open"
    /\ Len(self.filelistings) = 3
    /\ self.filelistings[3].pathindex = 1
    /\ self.filelistings[2].pathindex = 0
    /\ paths[3] = <<"/", "a", "/", "b", "/", "a">>
    /\ self.allfiles[<<"/", "a", "/", "b", "/", "a">>] = 3
    /\ self.allfiles[<<"/", "a", "/", "b">>] = 2

\* C10: the walk for one record takes at most as many steps as there are
\* records, also when the pathindex references form a cycle.
C10_WalkBounded ==
    pc = "paths" => Len(path_components) - 1 <= Len(self.filelistings)

\* the records that resolved to the path k, by index
ResolvedTo(k) == {i \in DOMAIN paths : paths[i] = k}

\* C29: after a successful open every key of allfiles starts with "/", allfiles
\* has at most as many entries as filelistings has records, and a path several
\* records resolve to is mapped to the one that comes last in the record array.
C29_AllfilesKeys ==
    pc = "open" =>
        /\ \A k \in DOMAIN self.allfiles : Len(k) >= 1 /\ k[1] = "/"
        /\ Cardinality(DOMAIN self.allfiles) <= Len(self.filelistings)
        /\ Len(paths) = Len(self.filelistings)
        /\ DOMAIN self.allfiles = {paths[i] : i \in DOMAIN paths}
        /\ \A k \in DOMAIN self.allfiles :
               /\ self.allfiles[k] \in ResolvedTo(k)
               /\ \A i \in ResolvedTo(k) : i <= self.allfiles[k]

\* three records, the first and the last both named "a" in the root: "/a" is
\* the last one
C29_Witness ==
    /\ pc = "open"
    /\ Len(self.filelistings) = 3
    /\ paths = << <<"/", "a">>, <<"/", "b">>, <<"/", "a">> >>
    /\ DOMAIN self.allfiles = {<<"/", "a">>, <<"/", "b">>}
    /\ self.allfiles[<<"/", "a">>] = 3

(***************************************************************************)
(* Claims on read_file (SpecRead)                                          *)
(***************************************************************************)
\* the hash record of logical block b as the format lays it out: the primary
\* one, or the secondary one where tables are doubled and the primary record
\* is not in use
LiveRecord(b) ==
    LET s == self.table_size_shift
        r0 == HashBytesAt(FixtureTable(s, b, 0), b % RecordsPerTable)
    IN  IF s = 1 /\ r0.info < 128
        THEN HashBytesAt(FixtureTable(s, b, 1), b % RecordsPerTable) ELSE r0

\* the first n blocks of the chain that starts at logical block b
RECURSIVE ChainBlocks(_, _)
ChainBlocks(b, n) ==
    IF n = 0 THEN <<>> ELSE <<b>> \o ChainBlocks(LiveRecord(b).nextblock, n - 1)

\* the blocks a file of sz bytes takes
NBlocks(sz) == (sz + BlockSize - 1) \div BlockSize

RECURSIVE TotalLen(_)
TotalLen(chunks) == IF chunks = <<>> THEN 0 ELSE Head(chunks).n + TotalLen(Tail(chunks))

\* the chain of record i has only blocks in lo .. allocated_count - 1, each
\* with a Current hash record
ChainIsCurrent(i, lo) ==
    LET fl == self.filelistings[i]
        c == ChainBlocks(fl.firstblock, NBlocks(fl.size))
    IN  \A k \in DOMAIN c :
            /\ c[k] >= lo /\ c[k] < self.allocated_count
            /\ LiveRecord(c[k]).info = 192

\* the physical blocks of the chain of record i, 0x1000 bytes each, the last
\* one cut to what remains of the size
ChainBytes(i) ==
    LET fl == self.filelistings[i]
        c == ChainBlocks(fl.firstblock, NBlocks(fl.size))
    IN  [k \in DOMAIN c |->
            [off |-> DataStart + FixturePhys(self.table_size_shift, c[k]) * BlockSize,
             n |-> Min(BlockSize, fl.size - (k - 1) * BlockSize)]]

\* read_file(record) returned record.size bytes, those of its chain
ReadIsWholeChain ==
    /\ ans.bytes = ChainBytes(q.filelisting)
    /\ TotalLen(ans.bytes) = self.filelistings[q.filelisting].size

\* C1 as stated: for every record whose chain has its blocks in
\* [0, allocated_count), each with a Current hash record, read_file returns
\* exactly record.size bytes, the concatenation of the chain's physical blocks.
C1_ReadWholeChainFromZero ==
    ("read_file" \in ans.done /\ ChainIsCurrent(q.filelisting, 0)) => ReadIsWholeChain

\* C1 amended: the same for chains whose blocks are in [1, allocated_count);
\* logical block 0 ends a chain.
C1_ReadWholeChain ==
    ("read_file" \in ans.done /\ ChainIsCurrent(q.filelisting, 1)) => ReadIsWholeChain

\* a file of one block and one byte, in blocks 1 and 0xAA of a container with
\* two-block tables, has been read
C1_Witness ==
    /\ "read_file" \in ans.done
    /\ ChainIsCurrent(q.filelisting, 1)
    /\ self.table_size_shift = 1
    /\ self.filelistings[q.filelisting].size = BlockSize + 1
    /\ self.filelistings[q.filelisting].firstblock = 1
    /\ ans.bytes = <<[off |-> DataStart + BlockSize, n |-> BlockSize],
                     [off |-> DataStart + 174 * BlockSize, n |-> 1]>>

(***************************************************************************)
(* Claims on read_file with and without a size (SpecSized)                 *)
(***************************************************************************)
\* max_bytes of the read_file call in q: the size given, or record.size
MaxBytes ==
    IF q.size = -1 THEN self.filelistings[q.filelisting].size ELSE q.size

\* the bytes asked for in iteration j of a call that is to return max bytes
RequestedAt(max, j) == Min(BlockSize, max - (j - 1) * BlockSize)

\* C22: at every iteration of read_file's loop the bytes requested so far plus
\* the remaining size equal the initial max_bytes (record.size when size is
\* -1), every visited block contributes min(0x1000, remaining) bytes, and the
\* byte string returned is never longer than max_bytes.
C22_SizeAccounting ==
    /\ pc = "read_file" =>
           /\ TotalLen(rf_buf) + rf_size = MaxBytes
           /\ \A j \in DOMAIN rf_buf : rf_buf[j].n = RequestedAt(MaxBytes, j)
    /\ (pc = "open" /\ ans.done = {"read_file"}) =>
           /\ "bytes" \in DOMAIN ans
           /\ TotalLen(ans.bytes) <= MaxBytes
           /\ \A j \in DOMAIN ans.bytes : ans.bytes[j].n = RequestedAt(MaxBytes, j)

\* a call with a size of MaxChain blocks and a byte, larger than the record
\* size, is in its loop after two whole blocks
C22_Witness ==
    /\ pc = "read_file"
    /\ q.size = MaxChain * BlockSize + 1
    /\ self.filelistings[q.filelisting].size = 1
    /\ Len(rf_buf) = 2
    /\ TotalLen(rf_buf) = 2 * BlockSize
    /\ rf_size = (MaxChain - 2) * BlockSize + 1

\* C26: read_file terminates on every container content, chains whose
\* nextblock pointers form a cycle included: every iteration makes the
\* remaining size strictly smaller and never negative, so that a call visits
\* at most ceil(max_bytes / 0x1000) blocks.
C26_ReadFileBounded ==
    [][(pc = "read_file" /\ pc' = "read_file") =>
          /\ rf_size' < rf_size
          /\ rf_size' >= 0
          /\ Len(rf_buf') = Len(rf_buf) + 1
          /\ Len(rf_buf') <= NBlocks(MaxBytes)
      ]_vars

\* a call for MaxChain blocks and a byte on a chain of one block whose record
\* points back to that block has returned, the block read MaxChain + 1 times
C26_Witness ==
    /\ pc = "open"
    /\ ans.done = {"read_file"}
    /\ MaxBytes = MaxChain * BlockSize + 1
    /\ self.filelistings[q.filelisting].firstblock = 1
    /\ LiveRecord(1).nextblock = 1
    /\ "bytes" \in DOMAIN ans
    /\ Len(ans.bytes) = MaxChain + 1
    /\ \A j \in DOMAIN ans.bytes : ans.bytes[j].off = DataStart + BlockSize

\* C27: read_file on a record whose firstblock is 0 or is >= allocated_count
\* returns an empty byte string, without error, whatever the size; no data
\* block and no hash record is read, so the cursor stays where the call found
\* it.
C27_FirstBlockOutOfRange ==
    LET fb == self.filelistings[q.filelisting].firstblock
    IN  /\ (pc = "read_file" /\ (fb = 0 \/ fb >= self.allocated_count)) =>
               /\ rf_buf = <<>>
               /\ fd_pos = q.pos
        /\ (pc = "open" /\ ans.done = {"read_file"}
               /\ (fb = 0 \/ fb >= self.allocated_count)) =>
               /\ "raised" \notin DOMAIN ans
               /\ ans.bytes = <<>>
               /\ fd_pos = q.pos

\* a record of one block and a byte whose firstblock 0xAA equals
\* allocated_count has been read: nothing came back
C27_Witness ==
    /\ pc = "open"
    /\ ans.done = {"read_file"}
    /\ self.filelistings[q.filelisting].firstblock = 170
    /\ self.allocated_count = 170
    /\ MaxBytes = BlockSize + 1
    /\ ans.bytes = <<>>
    /\ fd_pos = q.pos

\* a record whose firstblock is 0 has been read with a size given
C27_WitnessZero ==
    /\ pc = "open"
    /\ ans.done = {"read_file"}
    /\ self.filelistings[q.filelisting].firstblock = 0
    /\ q.size = BlockSize - 1
    /\ ans.bytes = <<>>
    /\ fd_pos = q.pos

\* C28: the status of a block's hash record is tested only after the bytes of
\* that block were appended: the first block of the chain whose selected
\* record has a status < 0x80 still contributes its min(0x1000, remaining)
\* bytes, and no block after it is read.
C28_StatusTestedAfterAppend ==
    (pc = "open" /\ ans.done = {"read_file"}) =>
        LET c == ChainBlocks(self.filelistings[q.filelisting].firstblock,
                             NBlocks(MaxBytes))
        IN  \A j \in DOMAIN c :
                (/\ \A m \in 1 .. j : c[m] > 0 /\ c[m] < self.allocated_count
                 /\ \A m \in 1 .. (j - 1) : LiveRecord(c[m]).info >= 128
                 /\ LiveRecord(c[j]).info < 128)
                => /\ "bytes" \in DOMAIN ans
                   /\ Len(ans.bytes) = j
                   /\ ans.bytes[j] =
                          [off |-> DataStart
                                     + FixturePhys(self.table_size_shift, c[j]) * BlockSize,
                           n |-> RequestedAt(MaxBytes, j)]

\* a chain whose first block, 1, has a Freed (0x40) record that points to
\* block 0xAA, below allocated_count, has been read with a size of more than
\* MaxChain blocks: the 0x1000 bytes of block 1 came back and nothing else
C28_Witness ==
    /\ pc = "open"
    /\ ans.done = {"read_file"}
    /\ q.size = MaxChain * BlockSize + 1
    /\ self.filelistings[q.filelisting].firstblock = 1
    /\ LiveRecord(1).info = 64
    /\ LiveRecord(1).nextblock = 170
    /\ self.allocated_count = 172
    /\ ans.bytes = <<[off |-> DataStart + BlockSize, n |-> BlockSize]>>

(***************************************************************************)
(* Claims on calls on an open container (SpecCalls)                        *)
(***************************************************************************)
\* the byte offset of the hash record get_blockhash(b, t) is about, as the
\* format lays it out
HashRecordOffset(b, t) ==
    DataStart + FixtureTable(self.table_size_shift, b, t) * BlockSize
        + (b % RecordsPerTable) * HashRecordSize

\* the status byte of that record
StatusByte(b, t) ==
    HashBytesAt(FixtureTable(self.table_size_shift, b, t), b % RecordsPerTable).info

\* C11: parsing a hash record fails with an error and yields no record when
\* its status byte is not 0x00, 0x40, 0x80 or 0xC0, and when the slice handed
\* to BlockHashRecord is not 0x18 bytes long because the table block lies
\* beyond the end of the byte source.
C11_BadRecordRejected ==
    (pc = "open" /\ ans.done = {"get_blockhash"}) =>
        LET lo == HashRecordOffset(q.blocknum, q.table_offset)
            whole == lo + HashRecordSize <= disk.len
            status == StatusByte(q.blocknum, q.table_offset)
        IN  /\ ~whole => /\ "blockhash" \notin DOMAIN ans
                         /\ "raised" \in DOMAIN ans
                         /\ ans.raised = "BlockHashRecord data of an incorrect length"
            /\ (whole /\ status \notin {0, 64, 128, 192}) =>
                         /\ "blockhash" \notin DOMAIN ans
                         /\ "raised" \in DOMAIN ans
                         /\ ans.raised = "BlockHashRecord type is unknown"
            /\ (whole /\ status \in {0, 64, 128, 192}) =>
                         /\ "blockhash" \in DOMAIN ans
                         /\ ans.blockhash.info = status

\* a record with status byte 0x01 has been refused
C11_Witness ==
    /\ pc = "open"
    /\ ans.done = {"get_blockhash"}
    /\ q.blocknum = 1
    /\ StatusByte(1, q.table_offset) = 1
    /\ HashRecordOffset(1, q.table_offset) + HashRecordSize <= disk.len
    /\ ans.raised = "BlockHashRecord type is unknown"

\* a record of a table block beyond the end of the byte source has been refused
C11_WitnessShort ==
    /\ pc = "open"
    /\ ans.done = {"get_blockhash"}
    /\ q.blocknum = FarNext
    /\ HashRecordOffset(FarNext, q.table_offset) >= disk.len
    /\ ans.raised = "BlockHashRecord data of an incorrect length"

\* BlockHashRecord accepts the records get_blockhash reads for block b: the
\* primary one, and the secondary one when that is the one selected
RecordParses(b) ==
    /\ StatusByte(b, 0) \in {0, 64, 128, 192}
    /\ (self.table_size_shift = 1 /\ StatusByte(b, 0) < 128)
           => StatusByte(b, 1) \in {0, 64, 128, 192}

\* the chain of record i, as long as its size asks for
ChainOf(i) ==
    ChainBlocks(self.filelistings[i].firstblock, NBlocks(self.filelistings[i].size))

\* the chain of record i ends before its block j: that block is <= 0 or
\* >= allocated_count, or the record selected for the block before it has a
\* status < 0x80
EndsBefore(i, j) ==
    \/ ChainOf(i)[j] <= 0
    \/ ChainOf(i)[j] >= self.allocated_count
    \/ (j > 1 /\ LiveRecord(ChainOf(i)[j - 1]).info < 128)

\* the blocks of the chain of record i that come before its early end
BlocksBeforeEnd(i) ==
    LET ends == {j \in DOMAIN ChainOf(i) : EndsBefore(i, j)}
    IN  IF ends = {} THEN Len(ChainOf(i))
        ELSE (CHOOSE j \in ends : \A k \in ends : j <= k) - 1

\* C12: when the chain of a record ends before its size is reached, because the
\* next block is <= 0 or >= allocated_count or the selected hash record has a
\* status < 0x80, read_file raises nothing and returns the bytes of the blocks
\* before the end, fewer than size.
C12_ShortReadNoError ==
    (pc = "open" /\ ans.done = {"read_file"}) =>
        LET i == q.filelisting
            k == BlocksBeforeEnd(i)
        IN  (/\ k < Len(ChainOf(i))
             /\ \A j \in 1 .. k : RecordParses(ChainOf(i)[j]))
            => /\ "raised" \notin DOMAIN ans
               /\ ans.bytes = SubSeq(ChainBytes(i), 1, k)
               /\ TotalLen(ans.bytes) < self.filelistings[i].size

\* a file of two blocks whose first hash record is Freed (0x40) has been read:
\* one block came back
C12_Witness ==
    /\ pc = "open"
    /\ ans.done = {"read_file"}
    /\ self.filelistings[q.filelisting].size = BlockSize + 1
    /\ LiveRecord(self.filelistings[q.filelisting].firstblock).info = 64
    /\ "bytes" \in DOMAIN ans
    /\ Len(ans.bytes) = 1
    /\ TotalLen(ans.bytes) = BlockSize

\* read_file has been left by the assertion of BlockHashRecord
C12_WitnessRaised ==
    /\ pc = "open"
    /\ ans.done = {"read_file"}
    /\ "raised" \in DOMAIN ans

\* the physical block of the record verify_block was called with lies whole
\* within the byte source
VerifiedBlockWhole ==
    DataStart + (FixturePhys(self.table_size_shift, ans.blockhash.blocknum) + 1) * BlockSize
        <= disk.len

\* the digest of the 0x1000 bytes of that physical block as they are now
VerifiedBlockDigest ==
    [content |-> BlockContentAt(FixturePhys(self.table_size_shift, ans.blockhash.blocknum)),
     n |-> BlockSize]

\* C13: verify_block(record) returns true exactly when the digest of the 0x1000
\* byte physical block of record.blocknum equals the digest stored in the
\* record: true for a block untouched since its digest was stored, false after
\* a change of its bytes; it returns false without raising and leaves the
\* record's digest as it is on disk.
C13_VerifyBlock ==
    (pc = "open" /\ ans.done = {"verify_block"} /\ VerifiedBlockWhole) =>
        LET stored == HashDigestAt(ans.blockhash.table, ans.blockhash.record)
        IN  /\ "raised" \notin DOMAIN ans
            /\ ans.result \in BOOLEAN
            /\ ans.result = (stored = VerifiedBlockDigest)
            /\ ans.blockhash.hash = stored
            /\ (stored = WrittenDigest /\ VerifiedBlockDigest = WrittenDigest)
                   => ans.result = TRUE
            /\ (stored = WrittenDigest /\ VerifiedBlockDigest # WrittenDigest)
                   => ans.result = FALSE

\* a block whose bytes were changed after its digest was stored has been
\* verified: false
C13_Witness ==
    /\ pc = "open"
    /\ ans.done = {"verify_block"}
    /\ VerifiedBlockWhole
    /\ ans.blockhash.hash = WrittenDigest
    /\ VerifiedBlockDigest # WrittenDigest
    /\ ans.result = FALSE

\* an untouched block has been verified: true
C13_WitnessUntouched ==
    /\ pc = "open"
    /\ ans.done = {"verify_block"}
    /\ VerifiedBlockWhole
    /\ ans.blockhash.hash = WrittenDigest
    /\ ans.blockhash.blocknum = 170
    /\ self.table_size_shift = 1
    /\ VerifiedBlockDigest = WrittenDigest
    /\ ans.result = TRUE

\* the cursor after a read of 0x1000 bytes asked for at physical block p
CursorAfterBlock(p) ==
    LET off == DataStart + p * BlockSize
    IN  IF off >= disk.len THEN off
        ELSE IF off + BlockSize <= disk.len THEN off + BlockSize ELSE disk.len

\* C16: once the container is open, every step of a read_file, get_blockhash,
\* verify_block, fix_blocknum, read_block or read_filetable call leaves the
\* object (header fields, filelistings, allfiles) and the bytes of the
\* container as they are; what a call changes is the file cursor, which
\* fix_blocknum leaves alone and verify_block leaves at the end of the block
\* it read.
C16_CallsChangeOnlyCursor ==
    [][(pc \in {"open", "read_file"}) =>
          /\ self' = self
          /\ disk' = disk
          /\ pc' \in {"open", "read_file"}
          /\ (ans'.done = {"fix_blocknum"}) => fd_pos' = fd_pos
          /\ (ans'.done = {"verify_block"} /\ ans.done = {"get_blockhash"}) =>
                 fd_pos' = CursorAfterBlock(
                              FixturePhys(self.table_size_shift, ans.blockhash.blocknum))
      ]_vars

\* verify_block has run on the record of block 0xAA and moved the cursor to
\* the end of that block; the object is as the open left it
C16_Witness ==
    /\ pc = "open"
    /\ ans.done = {"verify_block"}
    /\ ans.blockhash.blocknum = 170
    /\ fd_pos = CursorAfterBlock(FixturePhys(self.table_size_shift, 170))
    /\ fd_pos # HeaderSize
    /\ self.allocated_count = disk.header.allocated_count
    /\ self.table_size_shift = 1
    /\ Len(self.filelistings) = 1
    /\ DOMAIN self.allfiles = {<<"/", "a">>}

\* C17: read_file for a record returns the same bytes whenever it is called on
\* the open container, whatever calls ran before and wherever they left the
\* cursor: what it returns (or that it raises) is fixed by the bytes of the
\* container, the header state and the record.
C17_ReadFileRepeatable ==
    (pc = "open" /\ ans.done = {"read_file"}) =>
        LET i == q.filelisting
            k == BlocksBeforeEnd(i)
            refused == \E j \in 1 .. k : ~RecordParses(ChainOf(i)[j])
        IN  /\ refused => "raised" \in DOMAIN ans
            /\ ~refused => /\ "bytes" \in DOMAIN ans
                           /\ ans.bytes = SubSeq(ChainBytes(i), 1, k)

\* a file of two blocks has been read whole by a call that found the cursor
\* beyond the end of the byte source, where a read_block call had left it
C17_Witness ==
    /\ pc = "open"
    /\ ans.done = {"read_file"}
    /\ q.pos = CursorAfterBlock(FixturePhys(self.table_size_shift, FarNext))
    /\ self.filelistings[q.filelisting].firstblock = 170
    /\ "bytes" \in DOMAIN ans
    /\ Len(ans.bytes) = 2
    /\ ans.bytes = ChainBytes(q.filelisting)

\* the 0x18 bytes of the records get_blockhash reads for block b exist and
\* BlockHashRecord accepts them
RecordReadable(b) ==
    /\ HashRecordOffset(b, 0) + HashRecordSize <= disk.len
    /\ (self.table_size_shift = 1 /\ StatusByte(b, 0) < 128)
           => HashRecordOffset(b, 1) + HashRecordSize <= disk.len
    /\ RecordParses(b)

\* the bytes of physical block p that exist, read as one block
BlockChunk(p) ==
    [off |-> DataStart + p * BlockSize,
     n |-> CursorAfterBlock(p) - (DataStart + p * BlockSize)]

\* C20: read_filetable(first, n) makes n iterations and returns the physical
\* blocks fix_blocknum(b_0), ..., fix_blocknum(b_(n-1)) in chain order, b_0 =
\* first and b_(i+1) the nextblock of the record selected for b_i; a status
\* < 0x80 or a nextblock outside [0, allocated_count) does not end it.
C20_ReadFiletableWhole ==
    (pc = "open" /\ ans.done = {"read_filetable"}) =>
        LET c == ChainBlocks(q.firstblock, q.numblocks)
        IN  (\A j \in DOMAIN c : RecordReadable(c[j])) =>
                /\ "bytes" \in DOMAIN ans
                /\ Len(ans.bytes) = q.numblocks
                /\ \A j \in DOMAIN c :
                       ans.bytes[j] = BlockChunk(FixturePhys(self.table_size_shift, c[j]))

\* two blocks have been read from block 1, whose record is Freed (0x40) and
\* whose nextblock 0xAA is not below allocated_count
C20_Witness ==
    /\ pc = "open"
    /\ ans.done = {"read_filetable"}
    /\ q.firstblock = 1 /\ q.numblocks = 2
    /\ StatusByte(1, 0) = 64
    /\ self.table_size_shift = 0
    /\ LiveRecord(1).nextblock = 170
    /\ self.allocated_count = 170
    /\ "bytes" \in DOMAIN ans
    /\ ans.bytes = <<[off |-> DataStart + BlockSize, n |-> BlockSize],
                     [off |-> DataStart + 172 * BlockSize, n |-> BlockSize]>>

\* the selector of the hash record that stands for block b: 1 when tables are
\* doubled and the status of the primary record is < 0x80, otherwise 0
SelectorOf(b) ==
    IF self.table_size_shift > 0 /\ StatusByte(b, 0) < 128 THEN 1 ELSE 0

\* the record at that selector, as it is on disk
SelectedRecord(b) ==
    HashBytesAt(FixtureTable(self.table_size_shift, b, SelectorOf(b)), b % RecordsPerTable)

\* the cursor after the record selected for block b was read: the end of the
\* table block it is in, which is the last one read
CursorAfterSelected(b) ==
    CursorAfterBlock(FixtureTable(self.table_size_shift, b, SelectorOf(b)))

\* C21: in read_file and in read_filetable the hash record used to advance
\* from block b is the primary one (selector 0) unless table_size_shift > 0 and
\* the primary record's status is < 0x80, in which case it is the secondary one
\* (selector 1); with table_size_shift = 0 the secondary table is never read
\* (the cursor is left at the end of the primary table block), and the status
\* read_file tests for the end of the chain is that of the selected record.
C21_RecordSelection ==
    /\ (pc = "read_file" /\ rf_buf # <<>>) =>
           LET b == ChainOf(q.filelisting)[Len(rf_buf)]
           IN  /\ rf_info = SelectedRecord(b).info
               /\ rf_block = SelectedRecord(b).nextblock
               /\ fd_pos = CursorAfterSelected(b)
               /\ self.table_size_shift = 0 =>
                      fd_pos = CursorAfterBlock(FixtureTable(0, b, 0))
    /\ (pc = "open" /\ ans.done = {"read_filetable"} /\ "bytes" \in DOMAIN ans
           /\ q.numblocks > 0) =>
           LET c == ChainBlocks(q.firstblock, q.numblocks)
               b == c[q.numblocks]
           IN  /\ ans.bytes[q.numblocks].off
                      = DataStart + FixturePhys(self.table_size_shift, b) * BlockSize
               /\ fd_pos = CursorAfterSelected(b)
               /\ self.table_size_shift = 0 =>
                      fd_pos = CursorAfterBlock(FixtureTable(0, b, 0))

\* read_file has advanced from block 1, whose primary record is not in use
\* (status 0x00) in a container with two-block tables: the secondary record,
\* Current, gave the next block 0xAA and the status
C21_Witness ==
    /\ pc = "read_file"
    /\ Len(rf_buf) = 1
    /\ self.filelistings[q.filelisting].firstblock = 1
    /\ self.table_size_shift = 1
    /\ StatusByte(1, 0) = 0
    /\ StatusByte(1, 1) = 192
    /\ rf_info = 192
    /\ rf_block = 170
    /\ fd_pos = CursorAfterBlock(FixtureTable(1, 1, 1))

\* read_filetable has advanced over a block whose primary record has status
\* 0x40 in a container with one-block tables: the primary record was used
C21_WitnessOneBlockTables ==
    /\ pc = "open"
    /\ ans.done = {"read_filetable"}
    /\ "bytes" \in DOMAIN ans
    /\ q.numblocks = 2
    /\ self.table_size_shift = 0
    /\ StatusByte(q.firstblock, 0) = 64
    /\ fd_pos = CursorAfterBlock(FixtureTable(0, ChainBlocks(q.firstblock, 2)[2], 0))

C23_WitnessBoth ==
    /\ tool.name = "stfs_file_stat"
    /\ tool.at = "returned"
    /\ tool.status.dta # Str(<<>>)
    /\ "upgrades" \in DOMAIN tool.status

\* every ancestor of every tree path is a directory entry of the tree
AncestorsAreDirectories ==
    \A key \in DOMAIN self.allfiles :
        LET comps == Split(Tail(key))
        IN  \A n \in 1 .. (Len(comps) - 1) :
                LET anc == <<"/">> \o Join(<<"/">>, SubSeq(comps, 1, n))
                IN  anc \in DOMAIN self.allfiles /\ Entry(anc).isdirectory

\* the writes in the log of the destination at the path of a key
WritesAt(key) == {m \in DOMAIN fs.log : fs.log[m] = [op |-> "write", path |-> OsParts(key)]}

\* C24: when stfs_extract has run on a tree whose ancestors are all directory
\* entries, it has returned; every directory creation came before the first
\* file write; the chain of components of every directory entry exists under
\* the destination; and every non-directory entry other than "/songs/" was
\* written exactly once at destination + path.
C24_ExtractHierarchy ==
    (/\ tool.name = "stfs_extract"
     /\ pc = "open"
     /\ tool.at \in {"returned", "raised"}
     /\ AncestorsAreDirectories) =>
        /\ tool.at = "returned"
        /\ \A m, n \in DOMAIN fs.log :
               (fs.log[m].op = "write" /\ fs.log[n].op = "mkdir") => n < m
        /\ \A key \in DOMAIN self.allfiles :
               /\ Entry(key).isdirectory =>
                     \A n \in 1 .. Len(OsParts(key)) : SubSeq(OsParts(key), 1, n) \in fs.dirs
               /\ (~Entry(key).isdirectory /\ key # SongsPadKey) =>
                     Cardinality(WritesAt(key)) = 1

\* C30: when STFS() refuses the container, the extractor has deleted and
\* created nothing at the destination.
C30_RefusedOpenLeavesDestination ==
    (tool.name \in Extractors /\ pc = "failed" /\ tool.at = "raised") => fs.log = <<>>

(***************************************************************************)
(* Claims on two threads (SpecThreads)                                     *)
(***************************************************************************)
\* C18: when two threads read from the same open container, the seek and the
\* read of each read_block are serialized against the other thread's, so each
\* thread obtains the bytes at the offset of its own block, as when it runs
\* alone.
C18_ReadsSerialized ==
    \A t \in Threads :
        pc[t] = "done" =>
            ans[t].bytes =
                <<[off |-> DataStart
                            + FixturePhys(self.table_size_shift, q[t].block) * BlockSize,
                   n |-> q[t].length]>>

====
